---- MODULE Spec2Model ----
(***************************************************************************)
(* A model of the procedural SQL structural analyzer (sql_parser_enhanced) *)
(* of crewai-workflow-transpiler.                                          *)
(*                                                                         *)
(* The SQL text is a sequence of tokens, as sqlparse hands the top-level   *)
(* tokens of a statement to StructureAnalyzer._process_tokens.  A token is *)
(* the upper-cased value of a word, or one of the two whitespace tokens    *)
(* "SP" (a blank) and "NL" (a line break).  The regular-expression passes  *)
(* of the analyzers read the same sequence as the text.                    *)
(***************************************************************************)
EXTENDS Integers, Sequences, FiniteSets, TLC

VARIABLES
    pc,                    \* which operation of the component under analysis has run
    sql_tokens,            \* StructureAnalyzer.sql_content, as its token sequence
    blocks,                \* StructureAnalyzer.blocks
    statements,            \* the statements of the text OperationDetector parses
    table_references,      \* OperationDetector.table_references
    temp_tables,           \* OperationDetector.temp_tables
    temp_structures,       \* OperationDetector.temp_structures
    variable_assignments,  \* DataFlowAnalyzer.variable_assignments
    data_flows,            \* DataFlowAnalyzer.data_flows
    parameters,            \* metadata["parameters"], with the places of each name
    parameter_usage,       \* ParameterTracker.parameter_usage
    test_value_candidates, \* ParameterTracker.test_value_candidates
    complexity_blocks,     \* RepositoryAnalyzer.logical_blocks
    implementation_complexity,  \* RepositoryAnalyzer.implementation_complexity of each run
    output_dict,           \* the argument of clean_output_for_json
    cleaned_output,        \* the result of clean_output_for_json
    stage_results,         \* the results of the analysis stages of process_single_file
    invocation,            \* the mode of the running invocation of process_single_file
    output_json,           \* the cleaned document of each invocation
    output_file,           \* the file at the output path of each invocation
    listing,               \* os.listdir(input_dir), each name with the file's content
    args_basic,            \* args.basic
    next_file,             \* position of process_directory's loop in the listing
    analyzers,             \* the id counters of the analyzer instances in use
    written,               \* the output directory: file name to document
    exit_status,           \* the exit status of the process
    error_log,             \* the functions that logged an error
    raised_at,             \* position of the file whose processing raised
    sql_lines,             \* StatementClassifier.sql_content.split('\n')
    classifier_statements, \* StatementClassifier.statements
    statement_ends,        \* where _extract_statements ended a statement
    statement_purposes,    \* StatementClassifier.statement_purposes
    repository_boundaries, \* RepositoryAnalyzer.repository_boundaries
    dynamic_statements,    \* the statements handed to _extract_dynamic_sql
    dynamic_sql_operations, \* OperationDetector.dynamic_sql_operations
    match_line,            \* the line of a match in sql_content, counted from 0
    found_blocks,          \* the block id each analyzer gives the match
    returned,              \* the lists the calls of one method have returned
    scan                   \* the loop variables of the scanning loop that runs

structVars == <<sql_tokens, blocks>>

flowVars ==
    <<statements, table_references, temp_tables, temp_structures,
      variable_assignments, data_flows>>

paramVars == <<parameters, parameter_usage, test_value_candidates>>

complexityVars == <<complexity_blocks, implementation_complexity>>

cleanVars == <<output_dict, cleaned_output>>

outputVars == <<stage_results, invocation, output_json, output_file>>

dirVars ==
    <<listing, args_basic, next_file, analyzers, written, exit_status, error_log, raised_at>>

\* the variables of the directory mode and of the single-function components
classifierVars == <<sql_lines, classifier_statements, statement_ends>>

boundaryVars == <<statement_purposes, repository_boundaries>>

\* the variables of the remaining single-function components
dynamicVars == <<dynamic_statements, dynamic_sql_operations>>

lookupVars == <<match_line, found_blocks>>

repeatVars == <<returned>>

loopVars == <<scan>>

lastVars == <<boundaryVars, dynamicVars, lookupVars, repeatVars, loopVars>>

laterVars == <<dirVars, classifierVars, lastVars>>

vars ==
    <<pc, structVars, flowVars, paramVars, complexityVars, cleanVars, outputVars,
      laterVars>>

\* None of Python: ids are numbers (block_3 is 3), None is -1.
Null == -1

\* the state of a component that is not under analysis
IdleStruct == sql_tokens = <<>> /\ blocks = <<>>

IdleFlow ==
    /\ statements = <<>>
    /\ table_references = <<>>
    /\ temp_tables = {}
    /\ temp_structures = <<>>
    /\ variable_assignments = <<>>
    /\ data_flows = <<>>

IdleParam ==
    /\ parameters = <<>>
    /\ parameter_usage = <<>>
    /\ test_value_candidates = <<>>

IdleComplexity ==
    /\ complexity_blocks = <<>>
    /\ implementation_complexity = <<>>

IdleClean ==
    /\ output_dict = <<>>
    /\ cleaned_output = <<>>

IdleOutput ==
    /\ stage_results = <<>>
    /\ invocation = ""
    /\ output_json = <<>>
    /\ output_file = <<>>

IdleDir ==
    /\ listing = <<>>
    /\ args_basic = FALSE
    /\ next_file = 0
    /\ analyzers = <<>>
    /\ written = <<>>
    /\ exit_status = Null
    /\ error_log = <<>>
    /\ raised_at = Null

IdleClassifier ==
    /\ sql_lines = <<>>
    /\ classifier_statements = <<>>
    /\ statement_ends = <<>>

IdleBoundary ==
    /\ statement_purposes = <<>>
    /\ repository_boundaries = <<>>

IdleDynamic ==
    /\ dynamic_statements = <<>>
    /\ dynamic_sql_operations = <<>>

IdleLookup ==
    /\ match_line = Null
    /\ found_blocks = <<>>

IdleRepeat == returned = <<>>

\* no scanning loop runs
NoScan == [i |-> 0, j |-> 0, line |-> <<>>, in_string |-> FALSE, in_comment |-> FALSE]

IdleLoops == scan = NoScan

IdleLast == IdleBoundary /\ IdleDynamic /\ IdleLookup /\ IdleRepeat /\ IdleLoops

IdleLater == IdleDir /\ IdleClassifier /\ IdleLast

\* the variables of the other components
notStruct ==
    <<flowVars, paramVars, complexityVars, cleanVars, outputVars, laterVars>>

notFlow ==
    <<structVars, paramVars, complexityVars, cleanVars, outputVars, laterVars>>

notParam ==
    <<structVars, flowVars, complexityVars, cleanVars, outputVars, laterVars>>

notComplexity ==
    <<structVars, flowVars, paramVars, cleanVars, outputVars, laterVars>>

notClean ==
    <<structVars, flowVars, paramVars, complexityVars, outputVars, laterVars>>

notOutput ==
    <<structVars, flowVars, paramVars, complexityVars, cleanVars, laterVars>>

(***************************************************************************)
(* Bounds of the model.                                                    *)
(***************************************************************************)
\* words of an input text (each word is followed by one whitespace token)
MaxWords == 3

\* words of an input text of error-handling words
MaxTxnWords == 4

\* words of an input text with blocks inside blocks
MaxNestWords == 4

(***************************************************************************)
(* Generic helpers on sequences.                                           *)
(***************************************************************************)
RECURSIVE SumNl(_, _, _)
Range(s) == {s[k] : k \in DOMAIN s}

Min(S) == CHOOSE x \in S : \A y \in S : x <= y

\* the sequences over S of length at most n
SeqsUpTo(S, n) == UNION {[1..k -> S] : k \in 0..n}

RECURSIVE Flatten(_)
Flatten(ss) == IF ss = <<>> THEN <<>> ELSE Head(ss) \o Flatten(Tail(ss))

(***************************************************************************)
(* Tokens.                                                                 *)
(***************************************************************************)
\* token.is_keyword, for the tokens of the model
Keywords ==
    {"IF", "ELSE", "WHILE", "CASE", "BEGIN", "END", "TRAN", "COMMIT",
     "ROLLBACK", "TRY", "CATCH", "INSERT_INTO", "JOIN", "WHERE", "SELECT",
     "RETURN"}

IsKeyword(t) == t \in Keywords

\* token.value.count('\n')
Nl(t) == IF t = "NL" THEN 1 ELSE 0

\* the line breaks of tokens[from..to]
SumNl(toks, from, to) ==
    IF from > to \/ from > Len(toks) THEN 0
    ELSE Nl(toks[from]) + SumNl(toks, from + 1, to)

\* len(token.value): the characters of a token of the model
TokLen(t) ==
    CASE t = "SP" -> 1
      [] t = "NL" -> 1
      [] t = "X" -> 1
      [] t = "IF" -> 2
      [] t = "END" -> 3
      [] t = "TRY" -> 3
      [] t \in {"ELSE", "CASE", "TRAN", "JOIN"} -> 4
      [] t \in {"WHILE", "BEGIN", "CATCH", "WHERE"} -> 5
      [] t \in {"COMMIT", "SELECT", "RETURN"} -> 6
      [] t = "ROLLBACK" -> 8
      [] t = "INSERT_INTO" -> 11
      [] OTHER -> 1

RECURSIVE TextLen(_, _, _)
\* the characters of tokens[from..to]
TextLen(toks, from, to) ==
    IF from > to \/ from > Len(toks) THEN 0
    ELSE TokLen(toks[from]) + TextLen(toks, from + 1, to)

\* len(sql_content.splitlines())
NumLines(toks) ==
    IF toks = <<>> THEN 0
    ELSE SumNl(toks, 1, Len(toks)) + (IF toks[Len(toks)] = "NL" THEN 0 ELSE 1)

\* tokens[from..to] (empty when from > to)
Slice(toks, from, to) ==
    IF from > to THEN <<>> ELSE SubSeq(toks, from, IF to > Len(toks) THEN Len(toks) ELSE to)

(***************************************************************************)
(* StructureAnalyzer._create_block                                         *)
(***************************************************************************)
CreateBlock(id, type, parent, startLine, endLine, code) ==
    [id |-> id, type |-> type, lineRange |-> <<startLine, endLine>>,
     parentBlock |-> parent, codeText |-> code,
     childBlocks |-> <<>>, nextBlock |-> Null, purpose |-> "NONE"]

(***************************************************************************)
(* StructureAnalyzer._process_tokens                                       *)
(***************************************************************************)
RECURSIVE FirstValue(_, _, _)
\* the first index j >= from with tokens[j].value.upper() in vals, or
\* Len(tokens) + 1: where the loops "while j < len(tokens) and
\* tokens[j].value.upper() != ..." stop
FirstValue(toks, from, vals) ==
    IF from > Len(toks) THEN Len(toks) + 1
    ELSE IF toks[from] \in vals THEN from
    ELSE FirstValue(toks, from + 1, vals)

RECURSIVE MatchEnd(_, _, _)
\* the loop "while j < len(tokens) and begin_count > 0": the index after the
\* END that closes the BEGIN, or Len(tokens) + 1 when no END closes it
MatchEnd(toks, j, begin_count) ==
    IF j > Len(toks) \/ begin_count <= 0 THEN j
    ELSE MatchEnd(toks, j + 1,
                  IF toks[j] = "BEGIN" THEN begin_count + 1
                  ELSE IF toks[j] = "END" THEN begin_count - 1
                  ELSE begin_count)

RECURSIVE CaseEnd(_, _)
\* the loop of the CASE branch: <<the index after it, whether END CASE was found>>
CaseEnd(toks, j) ==
    IF j > Len(toks) THEN <<j, FALSE>>
    ELSE IF toks[j] = "END" /\ j + 1 <= Len(toks) /\ toks[j + 1] = "CASE"
         THEN <<j + 2, TRUE>>
    ELSE CaseEnd(toks, j + 1)

\* the block the IF or WHILE branch creates at token i, and the next index
CondBlock(toks, i, line, id, parent, type) ==
    LET jB == FirstValue(toks, i + 1, {"BEGIN"})
        cond == Slice(toks, i + 1, jB - 1)
        lineC == line + SumNl(toks, i + 1, jB - 1)
        start == lineC - SumNl(cond, 1, Len(cond))
    IN  IF jB <= Len(toks)
        THEN LET jE == MatchEnd(toks, jB + 1, 1)
                 lineE == lineC + SumNl(toks, jB, jE - 1)
             IN  [block |-> CreateBlock(id, type, parent, start, lineE,
                                        <<type, "SP">> \o cond \o <<"SP">> \o Slice(toks, jB, jE - 1)),
                  next |-> jE, line |-> lineE]
        ELSE \* single statement: j is already len(tokens)
             [block |-> CreateBlock(id, type, parent, start, lineC, <<type, "SP">> \o cond),
              next |-> jB, line |-> lineC]

\* the block the ELSE branch creates at token i, and the next index
ElseBlock(toks, i, line, id, parent) ==
    IF i + 1 <= Len(toks) /\ toks[i + 1] = "BEGIN"
    THEN LET jE == MatchEnd(toks, i + 2, 1)
             lineE == line + SumNl(toks, i + 1, jE - 1)
         IN  [block |-> CreateBlock(id, "ELSE", parent, line, lineE,
                                    <<"ELSE", "SP", "BEGIN">> \o Slice(toks, i + 2, jE - 1)),
              next |-> jE, line |-> lineE]
    ELSE LET jE == FirstValue(toks, i + 1, {"END"})
             lineE == line + SumNl(toks, i + 1, jE - 1)
         IN  [block |-> CreateBlock(id, "ELSE", parent, line, lineE,
                                    <<"ELSE">> \o Slice(toks, i + 1, jE - 1)),
              next |-> jE, line |-> lineE]

\* the block the CASE branch creates at token i, and the next index
CaseBlock(toks, i, line, id, parent) ==
    LET ce == CaseEnd(toks, i + 1)
        jE == ce[1]
        \* current_line skips the END of a found END CASE
        counted == IF ce[2] THEN SumNl(toks, i + 1, jE - 3) + Nl(toks[jE - 1])
                   ELSE SumNl(toks, i + 1, jE - 1)
        lineE == line + counted
        text == Slice(toks, i, jE - 1)
    IN  [block |-> CreateBlock(id, "CASE", parent, lineE - SumNl(text, 1, Len(text)), lineE, text),
         next |-> jE, line |-> lineE]

\* the block the bare BEGIN branch creates at token i, and the next index
BeginBlock(toks, i, line, id, parent) ==
    LET jE == MatchEnd(toks, i + 1, 1)
        lineE == line + SumNl(toks, i + 1, jE - 1)
    IN  [block |-> CreateBlock(id, "BEGIN_END", parent, line, lineE,
                               <<"BEGIN">> \o Slice(toks, i + 1, jE - 1)),
         next |-> jE, line |-> lineE]

RECURSIVE ProcessTokens(_, _, _, _, _)
\* the while loop of _process_tokens from index i (1-based) at current_line
\* line0, with the blocks found so far; counter is block_counter
ProcessTokens(toks, i, line0, parent, bs) ==
    IF i > Len(toks) THEN bs
    ELSE
      LET tok == toks[i]
          line == line0 + Nl(tok)
          id == Len(bs)
      IN  IF IsKeyword(tok)
          THEN CASE tok \in {"IF", "WHILE"} ->
                      LET r == CondBlock(toks, i, line, id, parent, tok)
                      IN  ProcessTokens(toks, r.next, r.line, parent, Append(bs, r.block))
                 [] tok = "ELSE" ->
                      LET r == ElseBlock(toks, i, line, id, parent)
                      IN  ProcessTokens(toks, r.next, r.line, parent, Append(bs, r.block))
                 [] tok = "CASE" ->
                      LET r == CaseBlock(toks, i, line, id, parent)
                      IN  ProcessTokens(toks, r.next, r.line, parent, Append(bs, r.block))
                 [] tok = "BEGIN" /\ (i = 1 \/ toks[i - 1] \notin {"IF", "ELSE", "WHILE"}) ->
                      LET r == BeginBlock(toks, i, line, id, parent)
                      IN  ProcessTokens(toks, r.next, r.line, parent, Append(bs, r.block))
                 [] OTHER -> ProcessTokens(toks, i + 1, line, parent, bs)
          ELSE ProcessTokens(toks, i + 1, line, parent, bs)

(***************************************************************************)
(* StructureAnalyzer._identify_nested_blocks                               *)
(***************************************************************************)
\* the sort key (lineRange[0], -lineRange[1]): a strictly before b
KeyLess(a, b) ==
    \/ a.lineRange[1] < b.lineRange[1]
    \/ a.lineRange[1] = b.lineRange[1] /\ a.lineRange[2] > b.lineRange[2]

RECURSIVE InsertSorted(_, _)
\* x put after every element that is not after it: sorted() is stable
InsertSorted(sorted, x) ==
    IF sorted = <<>> THEN <<x>>
    ELSE IF KeyLess(x, Head(sorted)) THEN <<x>> \o sorted
    ELSE <<Head(sorted)>> \o InsertSorted(Tail(sorted), x)

RECURSIVE SortBlocks(_)
\* sorted(blocks, key=lambda b: (b["lineRange"][0], -b["lineRange"][1]))
SortBlocks(bs) ==
    IF bs = <<>> THEN <<>>
    ELSE InsertSorted(SortBlocks(SubSeq(bs, 1, Len(bs) - 1)), bs[Len(bs)])

\* potential_parent's range contains block's range
Contains(p, b) ==
    p.lineRange[1] <= b.lineRange[1] /\ p.lineRange[2] >= b.lineRange[2]

\* the index of the block with this id in a sequence of blocks
IndexOf(bs, id) == CHOOSE k \in DOMAIN bs : bs[k].id = id

\* the parent the loop "for potential_parent in sorted_blocks[:i]" gives
\* the block at index i of sorted_blocks: the first container, else None
FirstContainer(sorted, i) ==
    LET cands == {k \in 1..(i - 1) : Contains(sorted[k], sorted[i])}
    IN  IF cands = {} THEN Null ELSE sorted[Min(cands)].id

IdentifyNestedBlocks(bs) ==
    LET sorted == SortBlocks(bs)
    IN  [k \in DOMAIN bs |->
            IF bs[k].parentBlock # Null THEN bs[k]
            ELSE [bs[k] EXCEPT !.parentBlock = FirstContainer(sorted, IndexOf(sorted, bs[k].id))]]

(***************************************************************************)
(* The regular expressions of the structure passes, on the token sequence. *)
(***************************************************************************)
IsSpace(t) == t \in {"SP", "NL"}

\* a match of  first\s+second  starts at index p
MatchPair(toks, p, first, seconds) ==
    /\ p + 2 <= Len(toks)
    /\ toks[p] = first
    /\ IsSpace(toks[p + 1])
    /\ toks[p + 2] \in seconds

\* a match of  word\s+(?:TRAN|TRANSACTION)?  starts at index p
MatchWordSpace(toks, p, word) ==
    /\ p + 1 <= Len(toks)
    /\ toks[p] = word
    /\ IsSpace(toks[p + 1])

\* re.search(pattern, content[from:]) for a pair pattern: the index of the
\* first match at or after from, or 0
SearchPair(toks, from, first, seconds) ==
    LET ms == {p \in from..Len(toks) : MatchPair(toks, p, first, seconds)}
    IN  IF ms = {} THEN 0 ELSE Min(ms)

SearchWordSpace(toks, from, word) ==
    LET ms == {p \in from..Len(toks) : MatchWordSpace(toks, p, word)}
    IN  IF ms = {} THEN 0 ELSE Min(ms)

RECURSIVE CharWindowEnd(_, _, _)
\* the last token that starts within n characters of the start of token q
CharWindowEnd(toks, q, n) ==
    IF q + 1 > Len(toks) \/ TokLen(toks[q]) >= n THEN q
    ELSE CharWindowEnd(toks, q + 1, n - TokLen(toks[q]))

\* len("COMMIT TRANSACTION")
CommitTransactionLen == 18

\* the characters about END TRY within which BEGIN CATCH must start
CatchDistance == 10

(***************************************************************************)
(* StructureAnalyzer._identify_transactions                                *)
(***************************************************************************)
RECURSIVE IdentifyTransactionsFrom(_, _, _)
\* the loop over re.finditer(begin_trans_pattern, sql_content) from index p
IdentifyTransactionsFrom(toks, p, bs) ==
    IF p > Len(toks) THEN bs
    ELSE IF ~MatchPair(toks, p, "BEGIN", {"TRAN"}) THEN IdentifyTransactionsFrom(toks, p + 1, bs)
    ELSE
      LET start_line == SumNl(toks, 1, p - 1)
          commit == SearchWordSpace(toks, p, "COMMIT")
          rollback == SearchWordSpace(toks, p, "ROLLBACK")
          end_pos == IF commit # 0 THEN commit ELSE rollback
          end_line == start_line + SumNl(toks, p, end_pos - 1)
          code == Slice(toks, p, CharWindowEnd(toks, end_pos, CommitTransactionLen))
      IN  IdentifyTransactionsFrom(toks, p + 3,
             IF end_pos = 0 THEN bs
             ELSE Append(bs, CreateBlock(Len(bs), "TRANSACTION", Null, start_line, end_line, code)))

IdentifyTransactions(toks, bs) == IdentifyTransactionsFrom(toks, 1, bs)

(***************************************************************************)
(* StructureAnalyzer._identify_error_handling                              *)
(***************************************************************************)
\* the CATCH block that follows the TRY block tokens[p..q+2], if any
CatchBlocks(toks, p, q, try_end_line, id) ==
    LET c == SearchPair(toks, q + 3, "BEGIN", {"CATCH"})
    IN  IF c = 0 \/ ~(TextLen(toks, q + 3, c - 1) + TextLen(toks, p, q + 2) < CatchDistance)
        THEN <<>>
        ELSE LET e == SearchPair(toks, c, "END", {"CATCH"})
                 catch_start_line == try_end_line + SumNl(toks, q + 3, c - 1)
                 catch_end_line == catch_start_line + SumNl(toks, c, e + 2)
             IN  IF e = 0 THEN <<>>
                 ELSE <<CreateBlock(id, "CATCH", Null, catch_start_line, catch_end_line,
                                    Slice(toks, c, e + 2))>>

RECURSIVE IdentifyErrorHandlingFrom(_, _, _)
\* the loop over re.finditer(begin_try_pattern, sql_content) from index p
IdentifyErrorHandlingFrom(toks, p, bs) ==
    IF p > Len(toks) THEN bs
    ELSE IF ~MatchPair(toks, p, "BEGIN", {"TRY"}) THEN IdentifyErrorHandlingFrom(toks, p + 1, bs)
    ELSE
      LET try_start_line == SumNl(toks, 1, p - 1)
          q == SearchPair(toks, p, "END", {"TRY"})
          try_end_line == try_start_line + SumNl(toks, p, q + 2)
          try_block == CreateBlock(Len(bs), "TRY", Null, try_start_line, try_end_line,
                                   Slice(toks, p, q + 2))
      IN  IdentifyErrorHandlingFrom(toks, p + 3,
             IF q = 0 THEN bs
             ELSE Append(bs, try_block) \o CatchBlocks(toks, p, q, try_end_line, Len(bs) + 1))

IdentifyErrorHandling(toks, bs) == IdentifyErrorHandlingFrom(toks, 1, bs)

(***************************************************************************)
(* StructureAnalyzer._identify_block_relationships (childBlocks, nextBlock;*)
(* conditionBoundary, which nothing below reads, is left out)              *)
(***************************************************************************)
RECURSIVE ChildrenOf(_, _)
\* the ids appended to the childBlocks of block id, in sorted_blocks order
ChildrenOf(sorted, id) ==
    IF sorted = <<>> THEN <<>>
    ELSE (IF Head(sorted).parentBlock = id THEN <<Head(sorted).id>> ELSE <<>>)
         \o ChildrenOf(Tail(sorted), id)

\* min(same_level_blocks, key=start): the first of the least start
NextBlockOf(sorted, b) ==
    LET same == {k \in DOMAIN sorted :
                    /\ sorted[k].parentBlock = b.parentBlock
                    /\ sorted[k].lineRange[1] > b.lineRange[2]}
        least == {k \in same : \A m \in same : sorted[k].lineRange[1] <= sorted[m].lineRange[1]}
    IN  IF same = {} THEN Null ELSE sorted[Min(least)].id

IdentifyBlockRelationships(bs) ==
    LET sorted == SortBlocks(bs)
    IN  [k \in DOMAIN bs |->
            [bs[k] EXCEPT !.childBlocks = ChildrenOf(sorted, bs[k].id),
                          !.nextBlock = NextBlockOf(sorted, bs[k])]]

(***************************************************************************)
(* StructureAnalyzer._classify_block_purpose                               *)
(***************************************************************************)
\* re.search(word, codeText)
HasWord(code, words) == \E k \in DOMAIN code : code[k] \in words

\* re.search(word\s+, codeText)
HasWordSpace(code, words) ==
    \E k \in DOMAIN code : code[k] \in words /\ k + 1 <= Len(code) /\ IsSpace(code[k + 1])

\* any(re.search(pattern, codeText) for pattern in insertion_patterns)
MatchesInsertion(code) == HasWord(code, {"INSERT_INTO"})

\* ... in transformation_patterns
MatchesTransformation(code) == HasWordSpace(code, {"JOIN"})

\* ... in filtering_patterns
MatchesFiltering(code) == HasWordSpace(code, {"WHERE", "IF"})

\* ... in retrieval_patterns
MatchesRetrieval(code) == HasWordSpace(code, {"SELECT"})

\* ... in control_flow_patterns
MatchesControlFlow(code) == HasWord(code, {"COMMIT", "ROLLBACK", "RETURN", "TRY", "CATCH"})

\* the chain with the filtering test moved before the insertion test
PurposeOfFilteringFirst(type, code) ==
    IF type \in {"TRY", "CATCH"} THEN "ERROR_HANDLING"
    ELSE IF type = "TRANSACTION" THEN "TRANSACTION_CONTROL"
    ELSE IF MatchesFiltering(code) THEN "DATA_FILTERING"
    ELSE IF MatchesInsertion(code) THEN "DATA_INSERTION"
    ELSE IF MatchesTransformation(code) THEN "DATA_TRANSFORMATION"
    ELSE IF MatchesRetrieval(code) THEN "DATA_RETRIEVAL"
    ELSE IF MatchesControlFlow(code) THEN "CONTROL_FLOW"
    ELSE "AUXILIARY"

\* the if/elif chain
PurposeOf(type, code) ==
    IF type \in {"TRY", "CATCH"} THEN "ERROR_HANDLING"
    ELSE IF type = "TRANSACTION" THEN "TRANSACTION_CONTROL"
    ELSE IF MatchesInsertion(code) THEN "DATA_INSERTION"
    ELSE IF MatchesTransformation(code) THEN "DATA_TRANSFORMATION"
    ELSE IF MatchesFiltering(code) THEN "DATA_FILTERING"
    ELSE IF MatchesRetrieval(code) THEN "DATA_RETRIEVAL"
    ELSE IF MatchesControlFlow(code) THEN "CONTROL_FLOW"
    ELSE "AUXILIARY"

ClassifyBlockPurpose(bs) ==
    [k \in DOMAIN bs |-> [bs[k] EXCEPT !.purpose = PurposeOf(bs[k].type, bs[k].codeText)]]

(***************************************************************************)
(* StructureAnalyzer.identify_blocks                                       *)
(***************************************************************************)
\* sqlparse.parse(sql_content): the texts of the model hold no ';', and are
\* one statement (none when the text is empty)
ParsedStatements(toks) == IF toks = <<>> THEN <<>> ELSE <<toks>>

RootBlock(toks) == CreateBlock(0, "PROCEDURE_BODY", Null, 0, NumLines(toks) - 1, toks)

RECURSIVE ProcessStatements(_, _)
\* for statement in self.parsed_statements: self._process_statement(statement)
ProcessStatements(stmts, bs) ==
    IF stmts = <<>> THEN bs
    ELSE ProcessStatements(Tail(stmts), ProcessTokens(Head(stmts), 1, 0, Null, bs))

IdentifyBlocksOf(toks) ==
    LET found == ProcessStatements(ParsedStatements(toks), <<RootBlock(toks)>>)
        nested == IdentifyNestedBlocks(found)
        trans == IdentifyTransactions(toks, nested)
        errs == IdentifyErrorHandling(toks, trans)
        rels == IdentifyBlockRelationships(errs)
    IN  ClassifyBlockPurpose(rels)

(***************************************************************************)
(* Input texts: words, each followed by a blank or a line break.           *)
(***************************************************************************)
\* the tokens of a word of the input
WordTokens(w) ==
    CASE w = "BEGIN_TRAN" -> <<"BEGIN", "SP", "TRAN">>
      [] w = "BEGIN_TRY" -> <<"BEGIN", "SP", "TRY">>
      [] w = "END_TRY" -> <<"END", "SP", "TRY">>
      [] w = "BEGIN_CATCH" -> <<"BEGIN", "SP", "CATCH">>
      [] w = "END_CATCH" -> <<"END", "SP", "CATCH">>
      [] OTHER -> <<w>>

RECURSIVE TextOf(_)
\* the token sequence of a text given as <<word, separator>> pairs
TextOf(ws) ==
    IF ws = <<>> THEN <<>>
    ELSE WordTokens(Head(ws)[1]) \o <<Head(ws)[2]>> \o TextOf(Tail(ws))

\* control-flow texts
StructWords == {"IF", "ELSE", "WHILE", "CASE", "BEGIN", "END", "X"}

\* transaction texts
TranWords == {"BEGIN_TRAN", "COMMIT", "ROLLBACK"}

\* error-handling texts
TxnWords == {"BEGIN_TRY", "END_TRY", "BEGIN_CATCH", "END_CATCH"}

\* texts with data operations
DataWords == {"IF", "BEGIN", "END", "INSERT_INTO", "JOIN", "WHERE", "SELECT", "RETURN"}

\* texts with a block on the last line of another block
NestWords == {"X", "IF", "END", "BEGIN"}

\* the families of input texts: the words, the most words of a text, and the
\* whitespace that follows a word
WordFamilies ==
    {<<StructWords, MaxWords, {"SP", "NL"}>>,
     <<TranWords, MaxWords, {"SP", "NL"}>>,
     <<TxnWords, MaxTxnWords, {"SP", "NL"}>>,
     <<DataWords, MaxWords, {"SP"}>>,
     <<NestWords, MaxNestWords, {"SP", "NL"}>>}

(***************************************************************************)
(* The structure analysis as a state machine.                              *)
(***************************************************************************)
InitStruct ==
    /\ pc = "start"
    /\ \E f \in WordFamilies :
         \E n \in 0..f[2] :
            \E ws \in [1..n -> f[1] \X f[3]] : sql_tokens = TextOf(ws)
    /\ blocks = <<>>
    /\ IdleFlow
    /\ IdleParam
    /\ IdleComplexity
    /\ IdleClean
    /\ IdleOutput
    /\ IdleLater

\* StructureAnalyzer.identify_blocks
IdentifyBlocks ==
    /\ pc = "start"
    /\ blocks' = IdentifyBlocksOf(sql_tokens)
    /\ pc' = "blocks"
    /\ UNCHANGED <<sql_tokens, notStruct>>

NextStruct == IdentifyBlocks

SpecStruct == InitStruct /\ [][NextStruct]_vars

(***************************************************************************)
(* Claims about the block structure.                                       *)
(***************************************************************************)
BlockIds == {blocks[k].id : k \in DOMAIN blocks}

BlockById(id) == blocks[CHOOSE k \in DOMAIN blocks : blocks[k].id = id]

Overlap(a, b) ==
    a.lineRange[1] <= b.lineRange[2] /\ b.lineRange[1] <= a.lineRange[2]

\* C1: after identify_blocks every block other than the PROCEDURE_BODY root
\* has a non-null parentBlock naming an existing block whose lineRange
\* contains the block's own lineRange.
C1_ParentContains ==
    pc = "blocks" =>
        \A k \in DOMAIN blocks :
            blocks[k].type # "PROCEDURE_BODY" =>
                /\ blocks[k].parentBlock # Null
                /\ blocks[k].parentBlock \in BlockIds
                /\ Contains(BlockById(blocks[k].parentBlock), blocks[k])

\* C2: after identify_blocks any two distinct blocks with the same
\* parentBlock value (null included) have non-overlapping lineRanges.
C2_SiblingsDisjoint ==
    pc = "blocks" =>
        \A k, m \in DOMAIN blocks :
            (k # m /\ blocks[k].parentBlock = blocks[m].parentBlock)
                => ~Overlap(blocks[k], blocks[m])

\* the decision list of the purposes, earliest first
PurposeOrder ==
    <<"ERROR_HANDLING", "TRANSACTION_CONTROL", "DATA_INSERTION", "DATA_TRANSFORMATION",
      "DATA_FILTERING", "DATA_RETRIEVAL", "CONTROL_FLOW", "AUXILIARY">>

\* block b matches the rule of category c
MatchesCategory(b, c) ==
    CASE c = "ERROR_HANDLING" -> b.type \in {"TRY", "CATCH"}
      [] c = "TRANSACTION_CONTROL" -> b.type = "TRANSACTION"
      [] c = "DATA_INSERTION" -> MatchesInsertion(b.codeText)
      [] c = "DATA_TRANSFORMATION" -> MatchesTransformation(b.codeText)
      [] c = "DATA_FILTERING" -> MatchesFiltering(b.codeText)
      [] c = "DATA_RETRIEVAL" -> MatchesRetrieval(b.codeText)
      [] c = "CONTROL_FLOW" -> MatchesControlFlow(b.codeText)
      [] OTHER -> TRUE

\* C5: after identify_blocks every block carries exactly one purpose of the
\* enum: the earliest category of the decision list that the block matches.
C5_FirstMatchingPurpose ==
    pc = "blocks" =>
        \A k \in DOMAIN blocks :
            \E r \in DOMAIN PurposeOrder :
                /\ blocks[k].purpose = PurposeOrder[r]
                /\ MatchesCategory(blocks[k], PurposeOrder[r])
                /\ \A q \in 1..(r - 1) : ~MatchesCategory(blocks[k], PurposeOrder[q])

\* a block that matches several categories has the earliest one
C5_Witness ==
    /\ pc = "blocks"
    /\ \E k \in DOMAIN blocks :
          /\ blocks[k].purpose = "DATA_INSERTION"
          /\ MatchesTransformation(blocks[k].codeText)
          /\ MatchesFiltering(blocks[k].codeText)

RECURSIVE ReachesNull(_, _)
\* following parentBlock from the block of this id reaches None within
\* the given number of steps
ReachesNull(id, steps) ==
    IF id = Null THEN TRUE
    ELSE IF steps = 0 \/ id \notin BlockIds THEN FALSE
    ELSE ReachesNull(BlockById(id).parentBlock, steps - 1)

\* C28: after identify_blocks the PROCEDURE_BODY root has parentBlock None,
\* and the parentBlock links from any block lead to None without coming
\* back to a block
C28_RootHasNoParent ==
    pc = "blocks" =>
        /\ \A k \in DOMAIN blocks :
              blocks[k].type = "PROCEDURE_BODY" => blocks[k].parentBlock = Null
        /\ \A k \in DOMAIN blocks : ReachesNull(blocks[k].id, Len(blocks))

(***************************************************************************)
(* Table references, temporary structures and data flows.                  *)
(*                                                                         *)
(* The text is a sequence of statements, one per line, each ended by ';'.  *)
(* A statement is its kind and the table it names:                         *)
(*   CREATE_TABLE #t      CREATE TABLE #t (...)                            *)
(*   INSERT t             INSERT INTO t ...                                *)
(*   SELECT t             SELECT ... FROM t                                *)
(*   UPDATE t, DELETE t   UPDATE t SET ..., DELETE FROM t                  *)
(*   SET t                SET @v = (SELECT ... FROM t)                     *)
(*   SELECT_ASSIGN t      SELECT @v = ... FROM t                           *)
(* Every table name follows a blank in the text.  The only logical block   *)
(* is the root, whose codeText is the whole text.                          *)
(***************************************************************************)
\* statements of an input text
MaxStatements == 3

TempNames == {"#t"}

PermNames == {"Src", "Dest"}

TableNames == PermNames \cup TempNames

VariableName == "@v"

FlowStatements ==
    [kind : {"CREATE_TABLE"}, table : TempNames]
        \cup [kind : {"INSERT", "SELECT", "UPDATE", "DELETE"}, table : TableNames]
        \cup [kind : {"SET", "SELECT_ASSIGN"}, table : PermNames]

\* the id of the root block, block_0
RootId == 0

\* re.search(r'\b' + re.escape(name) + r'\b', text) for a name that follows
\* a blank: '#' is no word character, so no boundary precedes a '#name'
WordBounded(name) == name \notin TempNames

\* OperationDetector._analyze_statement: the references one statement adds
StatementReferences(s) ==
    CASE s.kind \in {"INSERT", "SELECT", "UPDATE", "DELETE"} ->
            <<[table |-> s.table, operation |-> s.kind, blockId |-> Null]>>
      [] s.kind = "SELECT_ASSIGN" ->
            <<[table |-> s.table, operation |-> "SELECT", blockId |-> Null]>>
      [] OTHER -> <<>>

\* OperationDetector._extract_temp_table: the structures one statement adds
StatementStructures(s) ==
    IF s.kind = "CREATE_TABLE"
    THEN <<[name |-> s.table, populatedFrom |-> <<>>, usedIn |-> <<>>,
            transformations |-> <<>>]>>
    ELSE <<>>

\* the names one statement adds to OperationDetector.temp_tables
StatementTempTables(s) ==
    IF \/ s.kind = "CREATE_TABLE"
       \/ s.kind = "INSERT" /\ s.table \in TempNames
    THEN {s.table}
    ELSE {}

\* OperationDetector._link_references_to_blocks: the first block whose
\* codeText holds the table name and the operation keyword is the root
LinkReferencesToBlocks(refs) ==
    [k \in DOMAIN refs |->
        IF WordBounded(refs[k].table)
        THEN [refs[k] EXCEPT !.blockId = RootId]
        ELSE refs[k]]

\* OperationDetector._find_temp_structure_index
FindTempStructureIndex(ts, temp_name) ==
    IF \E i \in DOMAIN ts : ts[i].name = temp_name
    THEN Min({i \in DOMAIN ts : ts[i].name = temp_name})
    ELSE Null

\* the body of the loop of _analyze_temp_table_operations for one reference
TempTableOperation(ts, refs, temps, table_ref) ==
    LET temp_idx == FindTempStructureIndex(ts, table_ref.table)
        SameBlockSelect(ref) ==
            ref.operation = "SELECT" /\ ref.blockId = table_ref.blockId
        select_refs == SelectSeq(refs, SameBlockSelect)
        populations ==
            [k \in DOMAIN select_refs |->
                [tableReference |-> select_refs[k].table,
                 operation |-> "SELECT_INTO_TEMP",
                 blockId |-> select_refs[k].blockId]]
        ReadBy(temp_name) ==
            /\ temp_name \in temps
            /\ FindTempStructureIndex(ts, temp_name) # Null
            /\ \E k \in DOMAIN refs :
                  /\ refs[k].table = temp_name
                  /\ refs[k].operation = "SELECT"
                  /\ refs[k].blockId = table_ref.blockId
        usage ==
            [operation |-> "INSERT_INTO", table |-> table_ref.table,
             blockId |-> table_ref.blockId]
    IN  IF table_ref.table \in temps
        THEN IF temp_idx = Null THEN ts
             ELSE CASE table_ref.operation = "INSERT" ->
                          [ts EXCEPT ![temp_idx].populatedFrom = @ \o populations]
                    [] table_ref.operation = "SELECT" ->
                          [ts EXCEPT ![temp_idx].usedIn =
                              Append(@, [operation |-> "SELECT_FROM_TEMP",
                                         table |-> "",
                                         blockId |-> table_ref.blockId])]
                    [] table_ref.operation = "UPDATE" ->
                          [ts EXCEPT ![temp_idx].transformations =
                              Append(@, [type |-> "UPDATE",
                                         blockId |-> table_ref.blockId])]
                    [] table_ref.operation = "DELETE" ->
                          [ts EXCEPT ![temp_idx].transformations =
                              Append(@, [type |-> "FILTER",
                                         blockId |-> table_ref.blockId])]
                    [] OTHER -> ts
        ELSE IF table_ref.operation = "INSERT"
             THEN [i \in DOMAIN ts |->
                     IF ReadBy(ts[i].name) /\ FindTempStructureIndex(ts, ts[i].name) = i
                     THEN [ts[i] EXCEPT !.usedIn = Append(@, usage)]
                     ELSE ts[i]]
             ELSE ts

\* OperationDetector._analyze_temp_table_operations
RECURSIVE AnalyzeTempTableOperations(_, _, _, _)
AnalyzeTempTableOperations(ts, refs, temps, k) ==
    IF k > Len(refs) THEN ts
    ELSE AnalyzeTempTableOperations(
             TempTableOperation(ts, refs, temps, refs[k]), refs, temps, k + 1)

\* the root block of a text of n statement lines: lineRange [0, n - 1]
RootLineRange(n) == <<0, n - 1>>

\* DataFlowAnalyzer._find_containing_block_id for a match on the line of
\* statement k (position_line counts from 1)
FindContainingBlockId(stmts, k) ==
    LET position_line == k
        range == RootLineRange(Len(stmts))
    IN  IF range[1] <= position_line /\ range[2] >= position_line
        THEN RootId
        ELSE Null

\* DataFlowAnalyzer._extract_entities_from_expr: one entry for every table
\* reference whose table the expression names
ExtractEntitiesFromExpr(refs, table) ==
    LET named == SelectSeq(refs, LAMBDA r : r.table = table)
    IN  [k \in DOMAIN named |-> named[k].table]

\* the assignments that one pattern of _extract_variable_assignments finds
RECURSIVE AssignmentsOfKind(_, _, _, _)
AssignmentsOfKind(stmts, refs, kind, k) ==
    IF k > Len(stmts) THEN <<>>
    ELSE (IF stmts[k].kind = kind
          THEN <<[variable |-> VariableName,
                  blockId |-> FindContainingBlockId(stmts, k),
                  lineNumber |-> k,
                  sourceEntities |-> ExtractEntitiesFromExpr(refs, stmts[k].table)]>>
          ELSE <<>>)
             \o AssignmentsOfKind(stmts, refs, kind, k + 1)

\* DataFlowAnalyzer._extract_variable_assignments: the SET assignments,
\* then the SELECT assignments
ExtractVariableAssignments(stmts, refs) ==
    AssignmentsOfKind(stmts, refs, "SET", 1)
        \o AssignmentsOfKind(stmts, refs, "SELECT_ASSIGN", 1)

\* the block ids of the linked references, in order of first appearance
RECURSIVE BlockIdsOfRefs(_, _)
BlockIdsOfRefs(refs, seen) ==
    IF refs = <<>> THEN <<>>
    ELSE IF Head(refs).blockId = Null \/ Head(refs).blockId \in seen
         THEN BlockIdsOfRefs(Tail(refs), seen)
         ELSE <<Head(refs).blockId>>
                  \o BlockIdsOfRefs(Tail(refs), seen \cup {Head(refs).blockId})

\* the flows _analyze_table_flows adds for the references of one block
RECURSIVE TableFlowsOfBlock(_, _, _, _)
TableFlowsOfBlock(flows, targets, sources, block_id) ==
    IF targets = <<>> THEN flows
    ELSE TableFlowsOfBlock(
             Append(flows,
                 [flowId |-> Len(flows),
                  sourceEntities |-> [k \in DOMAIN sources |-> sources[k].table],
                  intermediateEntities |-> <<>>,
                  targetEntities |-> <<Head(targets).table>>,
                  operations |-> <<Head(targets).operation>>,
                  blockIds |-> <<block_id>>]),
             Tail(targets), sources, block_id)

\* DataFlowAnalyzer._analyze_table_flows
RECURSIVE AnalyzeTableFlows(_, _, _)
AnalyzeTableFlows(flows, refs, block_ids) ==
    IF block_ids = <<>> THEN flows
    ELSE LET references == SelectSeq(refs, LAMBDA r : r.blockId = Head(block_ids))
             targets == SelectSeq(references,
                            LAMBDA r : r.operation \in {"INSERT", "UPDATE"})
             sources == SelectSeq(references, LAMBDA r : r.operation = "SELECT")
         IN  AnalyzeTableFlows(
                 IF targets # <<>> /\ sources # <<>>
                 THEN TableFlowsOfBlock(flows, targets, sources, Head(block_ids))
                 ELSE flows,
                 refs, Tail(block_ids))

\* the flows _analyze_variable_flows adds for one assignment: one for every
\* linked reference, the root text holding the variable name
RECURSIVE VariableFlowsOf(_, _, _)
VariableFlowsOf(flows, var_assignment, refs) ==
    IF refs = <<>> THEN flows
    ELSE LET ref == Head(refs)
         IN  VariableFlowsOf(
                 IF ref.blockId # Null
                 THEN Append(flows,
                         [flowId |-> Len(flows),
                          sourceEntities |-> var_assignment.sourceEntities,
                          intermediateEntities |-> <<var_assignment.variable>>,
                          targetEntities |-> <<ref.table>>,
                          operations |->
                              IF ref.operation \in {"INSERT", "UPDATE", "DELETE"}
                              THEN <<ref.operation>> ELSE <<>>,
                          blockIds |-> <<var_assignment.blockId, ref.blockId>>])
                 ELSE flows,
                 var_assignment, Tail(refs))

\* DataFlowAnalyzer._analyze_variable_flows
RECURSIVE AnalyzeVariableFlows(_, _, _)
AnalyzeVariableFlows(flows, assignments, refs) ==
    IF assignments = <<>> THEN flows
    ELSE AnalyzeVariableFlows(
             IF Head(assignments).sourceEntities # <<>>
             THEN VariableFlowsOf(flows, Head(assignments), refs)
             ELSE flows,
             Tail(assignments), refs)

\* the items of s without repetition, in order of first appearance
RECURSIVE Distinct(_, _)
Distinct(s, seen) ==
    IF s = <<>> THEN <<>>
    ELSE IF Head(s) \in seen THEN Distinct(Tail(s), seen)
         ELSE <<Head(s)>> \o Distinct(Tail(s), seen \cup {Head(s)})

\* the flow _analyze_temp_table_flows builds for one temporary structure
TempTableFlow(temp, flowId) ==
    LET inserts == SelectSeq(temp.usedIn, LAMBDA u : u.operation = "INSERT_INTO")
    IN  [flowId |-> flowId,
         sourceEntities |->
             [k \in DOMAIN temp.populatedFrom |-> temp.populatedFrom[k].tableReference],
         intermediateEntities |-> <<temp.name>>,
         targetEntities |-> [k \in DOMAIN inserts |-> inserts[k].table],
         operations |->
             Distinct([k \in DOMAIN temp.transformations |->
                          temp.transformations[k].type], {}),
         blockIds |->
             Distinct([k \in DOMAIN temp.populatedFrom |-> temp.populatedFrom[k].blockId]
                          \o [k \in DOMAIN temp.usedIn |-> temp.usedIn[k].blockId], {})]

\* the test of _analyze_temp_table_flows before it emits a flow
EmitsTempFlow(source_entities, target_entities) ==
    source_entities # <<>> \/ target_entities # <<>>

\* DataFlowAnalyzer._analyze_temp_table_flows
RECURSIVE AnalyzeTempTableFlows(_, _)
AnalyzeTempTableFlows(flows, temps) ==
    IF temps = <<>> THEN flows
    ELSE LET flow == TempTableFlow(Head(temps), Len(flows))
         IN  AnalyzeTempTableFlows(
                 IF EmitsTempFlow(flow.sourceEntities, flow.targetEntities)
                 THEN Append(flows, flow)
                 ELSE flows,
                 Tail(temps))

\* DataFlowAnalyzer.analyze_data_flows on an instance whose self.data_flows
\* holds flows
AnalyzeDataFlowsOnto(flows, assignments, refs, temps) ==
    AnalyzeTempTableFlows(
        AnalyzeVariableFlows(
            AnalyzeTableFlows(flows, refs, BlockIdsOfRefs(refs, {})),
            assignments, refs),
        temps)

\* DataFlowAnalyzer.analyze_data_flows on a new instance
AnalyzeDataFlowsOf(assignments, refs, temps) ==
    AnalyzeDataFlowsOnto(<<>>, assignments, refs, temps)

(***************************************************************************)
(* The flow analysis as a state machine: steps 2 and 4 of                  *)
(* process_single_file.                                                    *)
(***************************************************************************)
InitFlow ==
    /\ pc = "start"
    /\ \E n \in 0..MaxStatements :
          \E ss \in [1..n -> FlowStatements] : statements = ss
    /\ table_references = <<>>
    /\ temp_tables = {}
    /\ temp_structures = <<>>
    /\ variable_assignments = <<>>
    /\ data_flows = <<>>
    /\ IdleStruct
    /\ IdleParam
    /\ IdleComplexity
    /\ IdleClean
    /\ IdleOutput
    /\ IdleLater

\* OperationDetector.detect_table_references
DetectTableReferences ==
    /\ pc = "start"
    /\ table_references' =
           LinkReferencesToBlocks(
               Flatten([k \in DOMAIN statements |-> StatementReferences(statements[k])]))
    /\ temp_structures' =
           Flatten([k \in DOMAIN statements |-> StatementStructures(statements[k])])
    /\ temp_tables' =
           UNION {StatementTempTables(statements[k]) : k \in DOMAIN statements}
    /\ pc' = "references"
    /\ UNCHANGED <<statements, variable_assignments, data_flows, notFlow>>

\* OperationDetector.analyze_temp_tables
AnalyzeTempTables ==
    /\ pc = "references"
    /\ temp_structures' =
           AnalyzeTempTableOperations(temp_structures, table_references, temp_tables, 1)
    /\ pc' = "temps"
    /\ UNCHANGED <<statements, table_references, temp_tables, variable_assignments,
                   data_flows, notFlow>>

\* DataFlowAnalyzer.__init__ and DataFlowAnalyzer.analyze_data_flows
AnalyzeDataFlows ==
    /\ pc = "temps"
    /\ variable_assignments' = ExtractVariableAssignments(statements, table_references)
    /\ data_flows' =
           AnalyzeDataFlowsOf(variable_assignments', table_references, temp_structures)
    /\ pc' = "flows"
    /\ UNCHANGED <<statements, table_references, temp_tables, temp_structures, notFlow>>

NextFlow == DetectTableReferences \/ AnalyzeTempTables \/ AnalyzeDataFlows

SpecFlow == InitFlow /\ [][NextFlow]_vars

(***************************************************************************)
(* Claims about the data flows.                                            *)
(***************************************************************************)
\* C3: every DataFlow returned by analyze_data_flows has a non-empty
\* sourceEntities list and a non-empty targetEntities list.
C3_FlowsHaveBothEnds ==
    pc = "flows" =>
        \A k \in DOMAIN data_flows :
            /\ data_flows[k].sourceEntities # <<>>
            /\ data_flows[k].targetEntities # <<>>

(***************************************************************************)
(* Parameter usage and test values (ParameterTracker).                     *)
(*                                                                         *)
(* A parameter of metadata["parameters"] is its name, its dataType, its    *)
(* defaultValue and the places of the text that spell its name.  A place   *)
(* is the character before the name and the text around it:                *)
(*   WHERE_EQ     ... WHERE c<name> = <literal> ...                        *)
(*   SELECT_TOP   SELECT TOP n<name> ...                                   *)
(*   PLAIN        no keyword within 50 characters                          *)
(* Two places are more than 100 characters apart, so that the context of   *)
(* one holds no keyword of another.  No statement purposes are given, so   *)
(* the entity of an occurrence is None and is left out.                    *)
(***************************************************************************)
\* parameters of the procedure
MaxParams == 2

\* None of Python where the other values are strings
None == "None"

\* the name of the k-th parameter
ParameterNames == <<"@P1", "@p2", "@P3", "@p4">>

\* the names that equal their upper-cased form
UpperNames == {"@P1", "@P3"}

DataTypes == {"INT", "VARCHAR(3)", "DATETIME", "BIT"}

DefaultValues == {None, "NULL", "'d'"}

Place(prev, kind, literal) == [prev |-> prev, kind |-> kind, literal |-> literal]

\* the bodies of the model, as the places of one parameter
ParameterPlaces ==
    {<<>>,
     <<Place("blank", "WHERE_EQ", "1")>>,
     <<Place("word", "WHERE_EQ", "1")>>,
     <<Place("word", "WHERE_EQ", "1"), Place("word", "WHERE_EQ", "2")>>,
     <<Place("word", "SELECT_TOP", None), Place("word", "WHERE_EQ", "1"),
       Place("word", "SELECT_TOP", None)>>,
     <<Place("word", "PLAIN", None), Place("blank", "SELECT_TOP", None)>>}

\* re.finditer(r'\b' + re.escape(param_name) + r'\b', ...): the name starts
\* with '@', so a word character must precede it
IsOccurrence(place) == place.prev = "word"

\* ParameterTracker._classify_parameter_usage: every keyword rule also asks
\* for param_name in context.upper()
ClassifyParameterUsage(param_name, place) ==
    IF param_name \notin UpperNames THEN "OTHER_USAGE"
    ELSE CASE place.kind = "WHERE_EQ" -> "FILTER_CONDITION"
           [] place.kind = "SELECT_TOP" -> "PAGINATION_LIMIT"
           [] OTHER -> "OTHER_USAGE"

\* ParameterTracker._extract_condition: the condition of the WHERE clause
\* that holds the name, written as the literal it compares with
ExtractCondition(place) ==
    IF place.kind = "WHERE_EQ" THEN place.literal ELSE None

\* ParameterTracker._find_parameter_occurrences
FindParameterOccurrences(param_name, places) ==
    LET found == SelectSeq(places, IsOccurrence)
    IN  [k \in DOMAIN found |->
            [usage |-> ClassifyParameterUsage(param_name, found[k]),
             condition |-> ExtractCondition(found[k])]]

\* the number of occurrences of usage type u
CountUsage(occurrences, u) ==
    Cardinality({k \in DOMAIN occurrences : occurrences[k].usage = u})

\* max(usage_counts.items(), key=count)[0]: the first usage type, in order
\* of first appearance, that no other type outnumbers
MostCommonUsage(occurrences) ==
    LET first == Min({k \in DOMAIN occurrences :
                        \A m \in DOMAIN occurrences :
                            CountUsage(occurrences, occurrences[m].usage)
                                <= CountUsage(occurrences, occurrences[k].usage)})
    IN  occurrences[first].usage

\* ParameterTracker._determine_usage_pattern
DetermineUsagePattern(occurrences) ==
    IF occurrences = <<>> THEN "UNUSED_PARAMETER"
    ELSE LET most_common_usage == MostCommonUsage(occurrences)
         IN  CASE most_common_usage = "FILTER_CONDITION" -> "FILTER_PARAMETER"
               [] most_common_usage = "PAGINATION_LIMIT" -> "PAGINATION_PARAMETER"
               [] OTHER -> most_common_usage

\* the body of the loop of ParameterTracker.analyze_parameter_usage
UsageData(param) ==
    LET occurrences == FindParameterOccurrences(param.name, param.places)
    IN  [parameterName |-> param.name,
         parameterType |-> param.dataType,
         defaultValue |-> param.defaultValue,
         usagePattern |-> DetermineUsagePattern(occurrences),
         occurrences |-> occurrences]

\* literal_values of _generate_test_values: the literals of the conditions
LiteralValues(param_data) ==
    {param_data.occurrences[k].condition : k \in DOMAIN param_data.occurrences}
        \ {None}

\* the orders in which the iteration over the set s can yield its items
Orders(s) ==
    {o \in [1..Cardinality(s) -> s] : \A i, j \in DOMAIN o : i # j => o[i] # o[j]}

TestValue(value, purpose) == [value |-> value, purpose |-> purpose]

\* default_value.strip("'")
StripQuotes(v) == IF v = "'d'" THEN "d" ELSE v

\* the type-specific values of _generate_test_values
TypeSpecificValues(param_type, usage_pattern) ==
    CASE param_type = "INT" /\ usage_pattern = "FILTER_PARAMETER" ->
            <<TestValue("0", "BOUNDARY_VALUE"), TestValue("-1", "NEGATIVE_VALUE"),
              TestValue("2147483647", "EXTREME_VALUE")>>
      [] param_type = "INT" /\ usage_pattern = "PAGINATION_PARAMETER" ->
            <<TestValue("0", "BOUNDARY_VALUE"), TestValue("1", "COMMON_VALUE"),
              TestValue("100", "COMMON_VALUE")>>
      [] param_type = "VARCHAR(3)" /\ usage_pattern = "FILTER_PARAMETER" ->
            <<TestValue("", "BOUNDARY_VALUE"), TestValue("%", "WILDCARD_VALUE"),
              TestValue("XXX", "BOUNDARY_VALUE")>>
      [] param_type = "DATETIME" ->
            <<TestValue("GETDATE()", "CURRENT_VALUE"), TestValue("NULL", "NULL_VALUE")>>
                \o (IF usage_pattern = "FILTER_PARAMETER"
                    THEN <<TestValue("DATEADD(day, -30, GETDATE())", "RELATIVE_VALUE"),
                           TestValue("DATEADD(day, 30, GETDATE())", "RELATIVE_VALUE")>>
                    ELSE <<>>)
      [] OTHER -> <<>>

\* the values of _generate_test_values before the closing NULL test
ValuesBeforeNullTest(param_data, literal_order) ==
    (IF param_data.defaultValue \notin {None, "NULL", "null"}
     THEN <<TestValue(StripQuotes(param_data.defaultValue), "DEFAULT_VALUE")>>
     ELSE <<>>)
        \o [k \in DOMAIN literal_order |-> TestValue(literal_order[k], "LITERAL_VALUE")]
        \o TypeSpecificValues(param_data.parameterType, param_data.usagePattern)

\* _generate_test_values without its closing NULL test
GenerateTestValuesByTypeOnly(param_data, literal_order) ==
    ValuesBeforeNullTest(param_data, literal_order)

\* ParameterTracker._generate_test_values, the iteration over the set
\* literal_values yielding literal_order
GenerateTestValues(param_data, literal_order) ==
    Append(ValuesBeforeNullTest(param_data, literal_order),
           TestValue("NULL", "NULL_VALUE"))

\* the body of the loop of ParameterTracker.extract_test_values
TestValueEntry(param_data, literal_order) ==
    LET conditional ==
            SelectSeq(param_data.occurrences, LAMBDA o : o.condition # None)
    IN  [parameterName |-> param_data.parameterName,
         dataType |-> param_data.parameterType,
         defaultValue |-> param_data.defaultValue,
         usageContext |-> param_data.usagePattern,
         conditions |->
             [k \in DOMAIN conditional |->
                 [condition |-> conditional[k].condition,
                  usage |-> conditional[k].usage]],
         suggestedTestValues |-> GenerateTestValues(param_data, literal_order)]

(***************************************************************************)
(* The parameter analysis as a state machine: step 6 of                    *)
(* process_single_file.                                                    *)
(***************************************************************************)
InitParam ==
    /\ pc = "start"
    /\ \E n \in 0..MaxParams :
          \E ps \in [1..n -> [dataType : DataTypes, defaultValue : DefaultValues,
                              places : ParameterPlaces]] :
             parameters =
                 [k \in 1..n |->
                     [name |-> ParameterNames[k], dataType |-> ps[k].dataType,
                      defaultValue |-> ps[k].defaultValue, places |-> ps[k].places]]
    /\ parameter_usage = <<>>
    /\ test_value_candidates = <<>>
    /\ IdleStruct
    /\ IdleFlow
    /\ IdleComplexity
    /\ IdleClean
    /\ IdleOutput
    /\ IdleLater

\* ParameterTracker.analyze_parameter_usage
AnalyzeParameterUsage ==
    /\ pc = "start"
    /\ parameter_usage' =
           parameter_usage \o [k \in DOMAIN parameters |-> UsageData(parameters[k])]
    /\ pc' = "usage"
    /\ UNCHANGED <<parameters, test_value_candidates, notParam>>

\* ParameterTracker.extract_test_values: every iteration over a set of
\* literals yields them in some order
ExtractTestValues ==
    /\ pc = "usage"
    /\ \E orders \in [DOMAIN parameter_usage -> UNION {Orders(S) : S \in SUBSET {"1", "2"}}] :
          /\ \A k \in DOMAIN parameter_usage :
                orders[k] \in Orders(LiteralValues(parameter_usage[k]))
          /\ test_value_candidates' =
                 [k \in DOMAIN parameter_usage |->
                     TestValueEntry(parameter_usage[k], orders[k])]
    /\ pc' = "tests"
    /\ UNCHANGED <<parameters, parameter_usage, notParam>>

NextParam == AnalyzeParameterUsage \/ ExtractTestValues

SpecParam == InitParam /\ [][NextParam]_vars

(***************************************************************************)
(* Claims about the test values.                                           *)
(***************************************************************************)
HasNullValue(entry) ==
    \E v \in DOMAIN entry.suggestedTestValues :
        entry.suggestedTestValues[v].purpose = "NULL_VALUE"

\* C4: after analyze_parameter_usage followed by extract_test_values, every
\* parameter of the procedure has a test-value entry that holds a suggested
\* value whose purpose is NULL_VALUE.
C4_NullValueForEveryParameter ==
    pc = "tests" =>
        \A k \in DOMAIN parameters :
            \E e \in DOMAIN test_value_candidates :
                /\ test_value_candidates[e].parameterName = parameters[k].name
                /\ HasNullValue(test_value_candidates[e])

\* a parameter of a type other than a date, with a default value and an
\* occurrence in a filter, whose only NULL_VALUE entry is the closing one
C4_Witness ==
    /\ pc = "tests"
    /\ \E e \in DOMAIN test_value_candidates :
          LET entry == test_value_candidates[e]
              values == entry.suggestedTestValues
          IN  /\ entry.dataType = "INT"
              /\ entry.usageContext = "FILTER_PARAMETER"
              /\ entry.defaultValue = "'d'"
              /\ Cardinality({v \in DOMAIN values : values[v].purpose = "NULL_VALUE"}) = 1
              /\ values[Len(values)].purpose = "NULL_VALUE"

(***************************************************************************)
(* Implementation complexity (RepositoryAnalyzer), analysed twice: two     *)
(* processes given the same file.                                          *)
(*                                                                         *)
(* A logical block is the set of the complexity patterns its codeText      *)
(* matches.  The first block is the root, whose codeText is the whole text *)
(* and so matches every pattern another block matches.  The descriptive    *)
(* fields of an indicator (level, description, approaches) are left out.   *)
(***************************************************************************)
\* blocks below the root
MaxChildBlocks == 1

\* what the codeText of a block can match
ComplexityFeatures == {"DYNAMIC_SQL", "TEMP_TABLE", "CTE", "APPLY"}

\* complex_patterns of _analyze_operation_complexity, in order
ComplexPatterns == <<"CTE", "APPLY">>

Runs == {"first", "second"}

\* the id of the k-th block of logical_blocks
BlockIdAt(k) == k - 1

\* the ids of the blocks that match the feature, as the set the pass builds
MatchingBlocks(bs, feature) == {BlockIdAt(k) : k \in {m \in DOMAIN bs : feature \in bs[m]}}

\* iteration over a set of block ids in a process whose string hashes
\* order the ids as hash_order does
RECURSIVE IterateSet(_, _)
IterateSet(s, hash_order) ==
    IF hash_order = <<>> THEN <<>>
    ELSE (IF Head(hash_order) \in s THEN <<Head(hash_order)>> ELSE <<>>)
             \o IterateSet(s, Tail(hash_order))

\* the indicators one of the two set-driven passes appends:
\* for i, block_id in enumerate(ids) with complexityId counter_start + i
SetPassIndicators(ids, counter_start, type) ==
    [i \in DOMAIN ids |->
        [complexityId |-> counter_start + (i - 1),
         blockIds |-> <<ids[i]>>,
         complexityType |-> type]]

\* RepositoryAnalyzer._analyze_dynamic_sql_complexity
AnalyzeDynamicSqlComplexity(ics, bs, counter_start, hash_order) ==
    ics \o SetPassIndicators(IterateSet(MatchingBlocks(bs, "DYNAMIC_SQL"), hash_order),
                             counter_start, "DYNAMIC_SQL")

\* RepositoryAnalyzer._analyze_temp_table_complexity
AnalyzeTempTableComplexity(ics, bs, counter_start, hash_order) ==
    ics \o SetPassIndicators(IterateSet(MatchingBlocks(bs, "TEMP_TABLE"), hash_order),
                             counter_start, "TEMP_TABLE")

\* any(block["id"] in comp.get("blockIds", []) for comp in ...)
AlreadyComplex(ics, id) ==
    \E c \in DOMAIN ics : \E b \in DOMAIN ics[c].blockIds : ics[c].blockIds[b] = id

\* RepositoryAnalyzer._analyze_operation_complexity: for every pattern the
\* first block not yet in an indicator that matches it
RECURSIVE AnalyzeOperationComplexity(_, _, _, _)
AnalyzeOperationComplexity(ics, bs, complexity_counter, patterns) ==
    IF patterns = <<>> THEN ics
    ELSE LET hits == {k \in DOMAIN bs :
                         /\ ~AlreadyComplex(ics, BlockIdAt(k))
                         /\ Head(patterns) \in bs[k]}
         IN  IF hits = {}
             THEN AnalyzeOperationComplexity(ics, bs, complexity_counter, Tail(patterns))
             ELSE AnalyzeOperationComplexity(
                      Append(ics, [complexityId |-> complexity_counter,
                                   blockIds |-> <<BlockIdAt(Min(hits))>>,
                                   complexityType |-> Head(patterns)]),
                      bs, complexity_counter + 1, Tail(patterns))

\* RepositoryAnalyzer.analyze_implementation_complexity
AnalyzeImplementationComplexityOf(bs, hash_order) ==
    LET dynamic == AnalyzeDynamicSqlComplexity(<<>>, bs, 0, hash_order)
        counter1 == 0 + Len(dynamic)
        temp == AnalyzeTempTableComplexity(dynamic, bs, counter1, hash_order)
        counter2 == counter1 + (Len(temp) - counter1)
    IN  AnalyzeOperationComplexity(temp, bs, counter2, ComplexPatterns)

(***************************************************************************)
(* The two runs as a state machine.                                        *)
(***************************************************************************)
InitComplexity ==
    /\ pc = "start"
    /\ \E n \in 0..MaxChildBlocks :
          \E children \in [1..n -> SUBSET ComplexityFeatures] :
             \E own \in SUBSET ComplexityFeatures :
                complexity_blocks =
                    <<own \cup UNION {children[k] : k \in 1..n}>> \o children
    /\ implementation_complexity = [r \in Runs |-> <<>>]
    /\ IdleStruct
    /\ IdleFlow
    /\ IdleParam
    /\ IdleClean
    /\ IdleOutput
    /\ IdleLater

\* one process runs analyze_implementation_complexity; the hash seed of the
\* process fixes the order in which its sets of block ids iterate
AnalyzeImplementationComplexity ==
    /\ pc \in {"start", "first"}
    /\ \E hash_order \in Orders({BlockIdAt(k) : k \in DOMAIN complexity_blocks}) :
          implementation_complexity' =
              [implementation_complexity EXCEPT
                  ![IF pc = "start" THEN "first" ELSE "second"] =
                      AnalyzeImplementationComplexityOf(complexity_blocks, hash_order)]
    /\ pc' = IF pc = "start" THEN "first" ELSE "second"
    /\ UNCHANGED <<complexity_blocks, notComplexity>>

NextComplexity == AnalyzeImplementationComplexity

SpecComplexity == InitComplexity /\ [][NextComplexity]_vars

(***************************************************************************)
(* Claims about the two runs.                                              *)
(***************************************************************************)
\* C6: two runs of the analyzer on the same input produce the same output,
\* with the same order of every list and the same generated ids.
C6_RunsAgree ==
    pc = "second" =>
        implementation_complexity["first"] = implementation_complexity["second"]

\* the indicators of a run that hold the block id in their blockIds
IndicatorsOf(run, id) ==
    {c \in DOMAIN implementation_complexity[run] :
        id \in Range(implementation_complexity[run][c].blockIds)}

\* C24: in the list analyze_implementation_complexity returns, no block id
\* stands in the blockIds of more than one indicator
C24_OneIndicatorPerBlock ==
    pc \in {"first", "second"} =>
        \A k \in DOMAIN complexity_blocks :
            Cardinality(IndicatorsOf("first", BlockIdAt(k))) <= 1

(***************************************************************************)
(* JSON documents and clean_output_for_json.                               *)
(*                                                                         *)
(* A Python value is a tagged record: None, a scalar of a JSON type (str,  *)
(* int, float, bool), an object of another type (a set, say), a list or a  *)
(* dict from string keys to values.                                        *)
(***************************************************************************)
\* nodes of a value given to clean_output_for_json
MaxNodes == 5

JNull == [t |-> "null"]

JStr(s) == [t |-> "scalar", s |-> s]

JOther(s) == [t |-> "other", s |-> s]

JList(l) == [t |-> "list", l |-> l]

JDict(d) == [t |-> "dict", d |-> d]

\* the empty dict
NoKeys == [k \in {} |-> JNull]

\* isinstance(value, (dict, list))
IsContainer(v) == v.t \in {"dict", "list"}

\* clean_output_for_json
RECURSIVE CleanOutputForJson(_)
CleanOutputForJson(output) ==
    LET CleanItems(items) ==
            [i \in DOMAIN items |->
                IF IsContainer(items[i]) THEN CleanOutputForJson(items[i]) ELSE items[i]]
        CleanValue(value) ==
            CASE value.t = "dict" -> CleanOutputForJson(value)
              [] value.t = "list" -> JList(CleanItems(value.l))
              [] value.t = "scalar" -> value
              [] OTHER -> JStr(value.s)
    IN  CASE output.t = "dict" ->
                JDict([key \in {k \in DOMAIN output.d : output.d[k].t # "null"} |->
                          CleanValue(output.d[key])])
          [] output.t = "list" -> JList(CleanItems(output.l))
          [] OTHER -> output

\* the values of exactly n nodes over the keys "a" and "b"
RECURSIVE JsonOfSize(_)
RECURSIVE ItemsOfSize(_)
JsonOfSize(n) ==
    IF n = 1
    THEN {JNull, JStr("s"), JOther("{1, 2}"), JList(<<>>), JDict(NoKeys)}
    ELSE {JList(l) : l \in ItemsOfSize(n - 1)}
            \cup {JDict([k \in {key} |-> v]) : key \in {"a", "b"}, v \in JsonOfSize(n - 1)}
            \cup UNION {{JDict([k \in {"a", "b"} |-> IF k = "a" THEN va ELSE vb]) :
                            va \in JsonOfSize(m), vb \in JsonOfSize(n - 1 - m)} :
                        m \in 1..(n - 2)}

\* the lists whose items have n nodes together
ItemsOfSize(n) ==
    IF n = 0 THEN {<<>>}
    ELSE UNION {{<<v>> \o rest : v \in JsonOfSize(m), rest \in ItemsOfSize(n - m)} :
                   m \in 1..n}

\* the dicts of at most n nodes
JsonDicts(n) == UNION {{v \in JsonOfSize(m) : v.t = "dict"} : m \in 1..n}

(***************************************************************************)
(* clean_output_for_json as a state machine.                               *)
(***************************************************************************)
InitClean ==
    /\ pc = "start"
    /\ output_dict \in JsonDicts(MaxNodes)
    /\ cleaned_output = JNull
    /\ IdleStruct
    /\ IdleFlow
    /\ IdleParam
    /\ IdleComplexity
    /\ IdleOutput
    /\ IdleLater

\* cleaned_output = clean_output_for_json(output_dict)
CleanOutput ==
    /\ pc = "start"
    /\ cleaned_output' = CleanOutputForJson(output_dict)
    /\ pc' = "cleaned"
    /\ UNCHANGED <<output_dict, notClean>>

NextClean == CleanOutput

SpecClean == InitClean /\ [][NextClean]_vars

(***************************************************************************)
(* Claims about clean_output_for_json.                                     *)
(***************************************************************************)
\* the values inside v, v included
RECURSIVE ValuesIn(_)
ValuesIn(v) ==
    {v} \cup
        CASE v.t = "dict" -> UNION {ValuesIn(v.d[k]) : k \in DOMAIN v.d}
          [] v.t = "list" -> UNION {ValuesIn(v.l[i]) : i \in DOMAIN v.l}
          [] OTHER -> {}

\* C10: the result of clean_output_for_json holds no null at any depth,
\* inside lists nested in dicts included, and no value of a type other than
\* dict, list, str, int, float and bool: those are converted to strings.
C10_NoNullNoOtherType ==
    pc = "cleaned" =>
        \A v \in ValuesIn(cleaned_output) : v.t \notin {"null", "other"}

(***************************************************************************)
(* process_single_file and OutputGenerator.generate_json.                  *)
(*                                                                         *)
(* The results of the analysis stages are given: the metadata and, for     *)
(* every collection of the document, a list of items.  The same input file *)
(* is processed with basic=True and, once that has returned, with          *)
(* basic=False, each invocation writing to an output path of its own that  *)
(* does not exist when the invocation starts.  The text written is the     *)
(* sequence of the top-level entries of the document.                      *)
(***************************************************************************)
\* items of a collection of the analysis results
MaxItems == 1

BasicKeys == <<"metadata", "logicalBlocks", "tableReferences", "potentialBusinessRules">>

EnhancedKeys ==
    <<"dataFlow", "statementPurpose", "parameterUsage", "queryPatterns",
      "repositoryBoundaries", "implementationComplexity", "testValueCandidates">>

\* the keys in the order generate_json inserts them
KeyOrder == BasicKeys \o EnhancedKeys

Modes == {"basic", "full"}

\* n copies of item
Copies(n, item) == [k \in 1..n |-> item]

\* an item of a collection: a dict with an id; an item of logicalBlocks also
\* has parentBlock None and an item of parameterUsage defaultValue None
ItemOf(key) ==
    CASE key = "logicalBlocks" ->
            JDict([k \in {"id", "parentBlock"} |-> IF k = "id" THEN JStr(key) ELSE JNull])
      [] key = "parameterUsage" ->
            JDict([k \in {"id", "defaultValue"} |-> IF k = "id" THEN JStr(key) ELSE JNull])
      [] OTHER -> JDict([k \in {"id"} |-> JStr(key)])

\* StructureAnalyzer.extract_metadata with n parameters
MetadataOf(n) ==
    JDict([k \in {"procedureName", "parameters"} |->
              IF k = "procedureName" THEN JStr("p")
              ELSE JList(Copies(n, ItemOf("parameters")))])

\* the results of steps 1 to 7 of process_single_file: logical_blocks holds
\* the root block; parameter_usage and test_value_candidates have one entry
\* for every parameter of the metadata
AnalysisResults(sizes) ==
    [key \in Range(KeyOrder) |->
        CASE key = "metadata" -> MetadataOf(sizes["parameterUsage"])
          [] key = "logicalBlocks" -> JList(<<ItemOf(key)>>)
          [] key = "testValueCandidates" ->
                JList(Copies(sizes["parameterUsage"], ItemOf(key)))
          [] OTHER -> JList(Copies(sizes[key], ItemOf(key)))]

\* the keys of the document when the full mode keeps everything it is given
IncludedKeysAll(results, basic) ==
    IF basic THEN Range(BasicKeys) ELSE Range(KeyOrder)

\* the keys of the document when the full mode leaves out the basic
\* collections that are empty
IncludedKeysNonEmpty(results, basic) ==
    IF basic THEN Range(BasicKeys)
    ELSE {"metadata"} \cup {key \in Range(KeyOrder) \ {"metadata"} : results[key].l # <<>>}

\* the keys generate_json puts in the document: the four basic keys, and
\* every enhanced key whose collection was given and is not empty
IncludedKeys(results, basic) ==
    Range(BasicKeys)
        \cup {key \in Range(EnhancedKeys) : ~basic /\ results[key].l # <<>>}

\* OutputGenerator.generate_json, as the document json.loads reads back
GenerateJson(results, basic) ==
    JDict([key \in IncludedKeys(results, basic) |-> results[key]])

\* json.dumps(cleaned_output): the top-level entries in insertion order
Dumps(doc) ==
    LET present == SelectSeq(KeyOrder, LAMBDA key : key \in DOMAIN doc.d)
    IN  [k \in DOMAIN present |-> [key |-> present[k], value |-> doc.d[present[k]]]]

\* no document yet
NoDoc == JNull

\* no file at the output path
NoFile == [exists |-> FALSE, content |-> <<>>]

FileOf(content) == [exists |-> TRUE, content |-> content]

(***************************************************************************)
(* The two invocations as a state machine.                                 *)
(***************************************************************************)
InitOutput ==
    /\ pc = "start"
    /\ \E sizes \in [Range(KeyOrder) \ {"metadata", "logicalBlocks", "testValueCandidates"}
                         -> 0..MaxItems] :
          stage_results = AnalysisResults(sizes)
    /\ invocation = "basic"
    /\ output_json = [m \in Modes |-> NoDoc]
    /\ output_file = [m \in Modes |-> NoFile]
    /\ IdleStruct
    /\ IdleFlow
    /\ IdleParam
    /\ IdleComplexity
    /\ IdleClean
    /\ IdleLater

\* the document of the running invocation
Document == CleanOutputForJson(GenerateJson(stage_results, invocation = "basic"))

\* process_single_file returns: the document is written whole
ProcessSingleFile ==
    /\ pc = "start"
    /\ output_json' = [output_json EXCEPT ![invocation] = Document]
    /\ output_file' = [output_file EXCEPT ![invocation] = FileOf(Dumps(Document))]
    /\ pc' = "done"
    /\ UNCHANGED <<stage_results, invocation, notOutput>>

\* process_single_file raises before the document exists (the input cannot
\* be read, an analysis stage raises)
AnalysisRaises ==
    /\ pc = "start"
    /\ pc' = "raised"
    /\ UNCHANGED <<stage_results, invocation, output_json, output_file, notOutput>>

\* process_single_file raises in open(output_path, 'w')
OpenRaises ==
    /\ pc = "start"
    /\ output_json' = [output_json EXCEPT ![invocation] = Document]
    /\ pc' = "raised"
    /\ UNCHANGED <<stage_results, invocation, output_file, notOutput>>

\* process_single_file raises in f.write(output_json) after open has
\* created the file: what was flushed before the error stays
WriteRaises ==
    /\ pc = "start"
    /\ output_json' = [output_json EXCEPT ![invocation] = Document]
    /\ \E n \in 0..(Len(Dumps(Document)) - 1) :
          output_file' =
              [output_file EXCEPT ![invocation] = FileOf(SubSeq(Dumps(Document), 1, n))]
    /\ pc' = "raised"
    /\ UNCHANGED <<stage_results, invocation, notOutput>>

\* after the basic invocation has returned, main is run again on the same
\* input without --basic
SecondInvocation ==
    /\ pc = "done"
    /\ invocation = "basic"
    /\ invocation' = "full"
    /\ pc' = "start"
    /\ UNCHANGED <<stage_results, output_json, output_file, notOutput>>

NextOutput ==
    \/ ProcessSingleFile
    \/ AnalysisRaises
    \/ OpenRaises
    \/ WriteRaises
    \/ SecondInvocation

SpecOutput == InitOutput /\ [][NextOutput]_vars

(***************************************************************************)
(* Claims about the documents and the output files.                        *)
(***************************************************************************)
KeysOf(doc) == DOMAIN doc.d

BothGenerated == \A m \in Modes : output_json[m] # NoDoc

\* the two documents have the same values under the four basic keys
SameBasicValues ==
    \A k \in DOMAIN BasicKeys :
        /\ BasicKeys[k] \in KeysOf(output_json["basic"]) \cap KeysOf(output_json["full"])
        /\ output_json["basic"].d[BasicKeys[k]] = output_json["full"].d[BasicKeys[k]]

\* every enhanced collection of the analysis results is empty
NoEnhancedResults ==
    \A k \in DOMAIN EnhancedKeys : stage_results[EnhancedKeys[k]].l = <<>>

NoPartialFile(m) ==
    \/ output_file[m] = NoFile
    \/ output_json[m] # NoDoc /\ output_file[m] = FileOf(Dumps(output_json[m]))

\* C8: process_single_file either produces a complete output file or
\* raises; when it has returned or raised, the output path holds no partial
\* file.
C8_NoPartialFile ==
    pc \in {"done", "raised"} => NoPartialFile(invocation)

\* a top-level value that is null or an empty collection
IsEmptyValue(v) ==
    \/ v.t = "null"
    \/ v.t = "list" /\ v.l = <<>>
    \/ v.t = "dict" /\ DOMAIN v.d = {}

\* C9 as stated: the full-mode document has no top-level key whose value is
\* an empty collection or null.
C9_NoEmptyTopLevelValue ==
    output_json["full"] # NoDoc =>
        \A key \in KeysOf(output_json["full"]) : ~IsEmptyValue(output_json["full"].d[key])

\* C9 amended: the full-mode document always has the four basic keys,
\* whatever their values, and has no other top-level key whose value is an
\* empty collection or null.
C9_NoEmptyEnhancedValue ==
    output_json["full"] # NoDoc =>
        /\ Range(BasicKeys) \subseteq KeysOf(output_json["full"])
        /\ \A key \in KeysOf(output_json["full"]) \ Range(BasicKeys) :
              ~IsEmptyValue(output_json["full"].d[key])

\* a full-mode document of a file with no table references and no data
\* flows but with statements: tableReferences is there and empty, dataFlow
\* is left out, statementPurpose is there
C9_Witness ==
    /\ output_json["full"] # NoDoc
    /\ "tableReferences" \in KeysOf(output_json["full"])
    /\ output_json["full"].d["tableReferences"].l = <<>>
    /\ stage_results["dataFlow"].l = <<>>
    /\ "dataFlow" \notin KeysOf(output_json["full"])
    /\ "statementPurpose" \in KeysOf(output_json["full"])

(***************************************************************************)
(* Directory mode: main calls process_directory, which calls               *)
(* process_single_file on each .sql file of the listing.  The content of a *)
(* file is the number of items each analyzer finds in it; an analyzer      *)
(* numbers its items from its counter (block_counter, rule_counter, the    *)
(* length of its result list).                                             *)
(***************************************************************************)
\* items of one id family in a file
MaxIds == 1

\* the id families: block_, rule_, dsql_, stmt_, flow_, pattern_, method_, complex_
BasicFamilies == {"block", "rule", "dsql"}

EnhancedFamilies == {"stmt", "flow", "pattern", "method", "complex"}

Families == BasicFamilies \cup EnhancedFamilies

\* the families whose ids the document of a mode holds
DocumentFamilies(basic_mode) ==
    IF basic_mode THEN {"block", "rule"} ELSE Families \ {"dsql"}

\* the file names of the input directory
FileNames ==
    {[stem |-> "a", ext |-> ".sql"], [stem |-> "b", ext |-> ".sql"],
     [stem |-> "c", ext |-> ".sql"], [stem |-> "d", ext |-> ".txt"]}

Stems == {name.stem : name \in FileNames}

\* the contents of a .sql file: a root block at least, the other families
\* of the basic stages alike, the families of the enhanced stages alike
FileContents ==
    {[f \in Families |-> IF f = "block" THEN b + 1
                         ELSE IF f \in BasicFamilies THEN b ELSE e] :
        b \in 0..MaxIds, e \in 0..MaxIds}

NoContent == [f \in Families |-> 0]

\* the analyzers process_single_file constructs: every counter at 0
AnalyzersInUse == analyzers

NewAnalyzers == [f \in Families |-> 0]

\* the ids an analyzer gives to n items
IdsFrom(counter, n) == [k \in 1..n |-> counter + k - 1]

\* the analyzers after the analysis of a content
AnalyzersAfter(instances, content) ==
    [f \in Families |-> instances[f] + content[f]]

\* the document of a content, analysed by the given instances
DocumentOf(instances, content, basic_mode) ==
    [f \in DocumentFamilies(basic_mode) |-> IdsFrom(instances[f], content[f])]

AbsentFile == [state |-> "absent", doc |-> [f \in {} |-> <<>>]]

PartialFile == [state |-> "partial", doc |-> [f \in {} |-> <<>>]]

CompleteFile(doc) == [state |-> "complete", doc |-> doc]

\* the stages of process_single_file an exception can come from
RaiseStages == {"read", "analysis", "open", "write"}

\* an exception of process_single_file is logged, re-raised through
\* process_directory, which has no handler, and caught by main: sys.exit(1)
RaiseContinues(position) ==
    [pc |-> "running", next_file |-> position + 1, exit_status |-> Null]

Raise(position) ==
    [pc |-> "exited", next_file |-> position, exit_status |-> 1]

InitDir ==
    /\ pc = "running"
    /\ \E names \in SUBSET FileNames :
          \E order \in Orders(names) :
             \E contents \in [1..Cardinality(names) -> FileContents] :
                listing = [k \in DOMAIN order |->
                              [name |-> order[k],
                               content |-> IF order[k].ext = ".sql"
                                           THEN contents[k] ELSE NoContent]]
    /\ args_basic \in BOOLEAN
    /\ next_file = 1
    /\ analyzers = [f \in Families |-> 0]
    /\ written = [s \in Stems |-> AbsentFile]
    /\ exit_status = Null
    /\ error_log = <<>>
    /\ raised_at = Null
    /\ IdleStruct
    /\ IdleFlow
    /\ IdleParam
    /\ IdleComplexity
    /\ IdleClean
    /\ IdleOutput
    /\ IdleClassifier
    /\ IdleLast

notDir ==
    <<structVars, flowVars, paramVars, complexityVars, cleanVars, outputVars,
      classifierVars, lastVars>>

\* one pass of the loop of process_directory on a .sql file:
\* process_single_file constructs its analyzers and writes the document
ProcessFile ==
    /\ pc = "running"
    /\ next_file <= Len(listing)
    /\ listing[next_file].name.ext = ".sql"
    /\ LET file == listing[next_file]
           instances == NewAnalyzers
       IN  /\ analyzers' = AnalyzersAfter(instances, file.content)
           /\ written' =
                [written EXCEPT ![file.name.stem] =
                    CompleteFile(DocumentOf(instances, file.content, args_basic))]
    /\ next_file' = next_file + 1
    /\ UNCHANGED <<pc, listing, args_basic, exit_status, error_log, raised_at, notDir>>

\* one pass of the loop on a file whose name does not end in .sql
SkipFile ==
    /\ pc = "running"
    /\ next_file <= Len(listing)
    /\ listing[next_file].name.ext # ".sql"
    /\ next_file' = next_file + 1
    /\ UNCHANGED <<pc, listing, args_basic, analyzers, written, exit_status,
                   error_log, raised_at, notDir>>

\* process_single_file raises on the file at hand
FileRaises ==
    /\ pc = "running"
    /\ next_file <= Len(listing)
    /\ listing[next_file].name.ext = ".sql"
    /\ \E stage \in RaiseStages :
          LET file == listing[next_file]
          IN  /\ analyzers' = IF stage = "read" THEN analyzers
                              ELSE AnalyzersAfter(NewAnalyzers, file.content)
              /\ written' = IF stage = "write"
                            THEN [written EXCEPT ![file.name.stem] = PartialFile]
                            ELSE written
              /\ error_log' =
                    (IF stage = "read" THEN Append(error_log, "read_input_file")
                     ELSE error_log)
                    \o <<"process_single_file">>
                    \o (IF Raise(next_file).pc = "exited" THEN <<"main">> ELSE <<>>)
    /\ raised_at' = next_file
    /\ pc' = Raise(next_file).pc
    /\ next_file' = Raise(next_file).next_file
    /\ exit_status' = Raise(next_file).exit_status
    /\ UNCHANGED <<listing, args_basic, notDir>>

\* the loop ends, process_directory and main return
DirectoryDone ==
    /\ pc = "running"
    /\ next_file > Len(listing)
    /\ pc' = "exited"
    /\ exit_status' = 0
    /\ UNCHANGED <<listing, args_basic, next_file, analyzers, written, error_log,
                   raised_at, notDir>>

NextDir == ProcessFile \/ SkipFile \/ FileRaises \/ DirectoryDone

SpecDir == InitDir /\ [][NextDir]_vars

\* the positions of the listing process_directory has gone through
Processed(k) ==
    /\ k \in 1..Len(listing)
    /\ k < next_file
    /\ listing[k].name.ext = ".sql"
    /\ written[listing[k].name.stem].state = "complete"

\* C11: the document of a file holds, for every id family, the ids 0, 1, ...
\* of the items of that file alone, whatever files were processed before it
C11_IdsRestartPerFile ==
    \A k \in 1..Len(listing) :
        Processed(k) =>
            LET doc == written[listing[k].name.stem].doc
            IN  /\ DOMAIN doc = DocumentFamilies(args_basic)
                /\ \A f \in DOMAIN doc :
                      /\ Len(doc[f]) = listing[k].content[f]
                      /\ \A i \in 1..Len(doc[f]) : doc[f][i] = i - 1

\* a second .sql file with items is processed after a first one with items
C11_Witness ==
    \E j, k \in 1..Len(listing) :
        /\ j < k
        /\ Processed(j)
        /\ Processed(k)
        /\ listing[j].content["rule"] > 0
        /\ listing[k].content["rule"] > 0
        /\ ~args_basic
        /\ listing[k].content["flow"] > 0
        /\ listing[j].content["flow"] > 0

\* C12: once the processing of a file has raised, the process has exited with
\* status 1 after main logged the error, no later file of the listing has an
\* output file, and the documents of the earlier .sql files are in place
C12_RaiseStopsDirectory ==
    raised_at # Null =>
        /\ pc = "exited"
        /\ exit_status = 1
        /\ error_log # <<>>
        /\ error_log[Len(error_log)] = "main"
        /\ \A k \in 1..Len(listing) :
              /\ k > raised_at => written[listing[k].name.stem].state = "absent"
              /\ (k < raised_at /\ listing[k].name.ext = ".sql") =>
                    written[listing[k].name.stem].state = "complete"

\* the second of three files raises
C12_Witness ==
    /\ raised_at = 2
    /\ Len(listing) = 3
    /\ listing[3].name.ext = ".sql"
    /\ listing[1].name.ext = ".sql"

(***************************************************************************)
(* OperationDetector._link_references_to_blocks on a text with nested      *)
(* blocks.  A text is a sequence of statements, one on each line; the      *)
(* codeText of a block is the statements of its lineRange.  logical_blocks *)
(* is the list identify_blocks returns: the root block first.              *)
(***************************************************************************)
\* blocks of a text besides the root
MaxLinkBlocks == 2

LinkStatements == [kind : {"SELECT", "INSERT"}, table : PermNames]

\* the lineRanges of the blocks inside a text of n lines
LineRanges(n) == {r \in (0..(n - 1)) \X (0..(n - 1)) : r[1] <= r[2]}

\* two lineRanges are nested or apart, as those of blocks are
Laminar(r, q) ==
    \/ r[2] < q[1]
    \/ q[2] < r[1]
    \/ r[1] <= q[1] /\ q[2] <= r[2]
    \/ q[1] <= r[1] /\ r[2] <= q[2]

\* block["codeText"]: the statements on the lines of the block
CodeTextOf(stmts, range) == SubSeq(stmts, range[1] + 1, range[2] + 1)

\* the two tests of _link_references_to_blocks on one block
BlockMatches(table_ref, block) ==
    /\ \E k \in DOMAIN block.codeText :
          block.codeText[k].table = table_ref.table /\ WordBounded(table_ref.table)
    /\ \E k \in DOMAIN block.codeText :
          block.codeText[k].kind = table_ref.operation

\* the block of the inner loop's break: the first of logical_blocks that matches
FirstMatchingBlock(table_ref, logical_blocks) ==
    LET matching == {k \in DOMAIN logical_blocks : BlockMatches(table_ref, logical_blocks[k])}
    IN  IF matching = {} THEN Null ELSE logical_blocks[Min(matching)].id

\* OperationDetector._link_references_to_blocks
LinkReferencesToLogicalBlocks(refs, logical_blocks) ==
    [k \in DOMAIN refs |->
        LET block_id == FirstMatchingBlock(refs[k], logical_blocks)
        IN  IF block_id = Null THEN refs[k]
            ELSE [refs[k] EXCEPT !.blockId = block_id]]

InitLink ==
    /\ pc = "start"
    /\ \E n \in 1..MaxStatements :
          \E ss \in [1..n -> LinkStatements] :
             \E m \in 0..MaxLinkBlocks :
                \E ranges \in [1..m -> LineRanges(n)] :
                   /\ \A i, j \in 1..m : Laminar(ranges[i], ranges[j])
                   /\ statements = ss
                   /\ blocks =
                        <<CreateBlock(RootId, "PROCEDURE_BODY", Null, 0, n - 1, ss)>>
                        \o [k \in 1..m |->
                              CreateBlock(k, "BEGIN_END", Null, ranges[k][1], ranges[k][2],
                                          CodeTextOf(ss, ranges[k]))]
    /\ sql_tokens = <<>>
    /\ table_references = <<>>
    /\ temp_tables = {}
    /\ temp_structures = <<>>
    /\ variable_assignments = <<>>
    /\ data_flows = <<>>
    /\ IdleParam
    /\ IdleComplexity
    /\ IdleClean
    /\ IdleOutput
    /\ IdleLater

\* OperationDetector.detect_table_references on the blocks of the text
DetectAndLinkReferences ==
    /\ pc = "start"
    /\ table_references' =
           LinkReferencesToLogicalBlocks(
               Flatten([k \in DOMAIN statements |-> StatementReferences(statements[k])]),
               blocks)
    /\ pc' = "references"
    /\ UNCHANGED <<statements, temp_tables, temp_structures, variable_assignments,
                   data_flows, structVars, notFlow>>

NextLink == DetectAndLinkReferences

SpecLink == InitLink /\ [][NextLink]_vars

\* the number of lines of a block
Span(block) == block.lineRange[2] - block.lineRange[1]

\* C13: after linking, the blockId of every reference is the id of a smallest
\* block whose code text holds the table name and the operation keyword, and
\* null only when no block matches
C13_LinkedToSmallestBlock ==
    pc = "references" =>
        \A k \in DOMAIN table_references :
            LET ref == table_references[k]
                matching == {b \in DOMAIN blocks : BlockMatches(ref, blocks[b])}
            IN  IF matching = {} THEN ref.blockId = Null
                ELSE \E b \in matching :
                        /\ ref.blockId = blocks[b].id
                        /\ \A c \in matching : Span(blocks[b]) <= Span(blocks[c])

(***************************************************************************)
(* OperationDetector._analyze_statement on texts with MERGE statements.    *)
(***************************************************************************)
\* MERGE INTO table USING source ...
MergeStatements == [kind : {"MERGE"}, table : PermNames, source : PermNames]

\* OperationDetector._get_statement_type: the first keyword of the statement
\* that is one of the five
GetStatementType(s) ==
    IF s.kind \in {"SELECT", "INSERT", "UPDATE", "DELETE", "MERGE"} THEN s.kind
    ELSE "None"

\* OperationDetector._extract_merge_references
ExtractMergeReferences(s) ==
    <<[table |-> s.table, operation |-> "MERGE_TARGET", blockId |-> Null],
      [table |-> s.source, operation |-> "MERGE_SOURCE", blockId |-> Null]>>

\* OperationDetector._extract_dml_operations
ExtractDmlOperations(s, statement_type) ==
    IF statement_type = "MERGE" THEN ExtractMergeReferences(s)
    ELSE StatementReferences(s)

\* the statement types _analyze_statement hands to _extract_dml_operations
DmlStatementTypes == {"SELECT", "INSERT", "UPDATE", "DELETE"}

\* OperationDetector._analyze_statement: the references one statement adds
\* (dynamic SQL and temp table creation add none)
AnalyzeStatement(s) ==
    LET statement_type == GetStatementType(s)
    IN  IF statement_type \in DmlStatementTypes
        THEN ExtractDmlOperations(s, statement_type)
        ELSE <<>>

InitMerge ==
    /\ pc = "start"
    /\ \E n \in 1..MaxStatements :
          \E ss \in [1..n -> MergeStatements \cup LinkStatements] : statements = ss
    /\ table_references = <<>>
    /\ temp_tables = {}
    /\ temp_structures = <<>>
    /\ variable_assignments = <<>>
    /\ data_flows = <<>>
    /\ IdleStruct
    /\ IdleParam
    /\ IdleComplexity
    /\ IdleClean
    /\ IdleOutput
    /\ IdleLater

\* OperationDetector.detect_table_references on a text with MERGE statements
DetectMergeReferences ==
    /\ pc = "start"
    /\ table_references' =
           LinkReferencesToBlocks(
               Flatten([k \in DOMAIN statements |-> AnalyzeStatement(statements[k])]))
    /\ pc' = "references"
    /\ UNCHANGED <<statements, temp_tables, temp_structures, variable_assignments,
                   data_flows, notFlow>>

NextMerge == DetectMergeReferences

SpecMerge == InitMerge /\ [][NextMerge]_vars

\* C14: after detect_table_references, every MERGE statement has a
\* MERGE_TARGET reference to its INTO table and a MERGE_SOURCE reference to
\* its USING table
C14_MergeTargetAndSource ==
    pc = "references" =>
        \A k \in DOMAIN statements :
            statements[k].kind = "MERGE" =>
                /\ \E r \in DOMAIN table_references :
                      /\ table_references[r].operation = "MERGE_TARGET"
                      /\ table_references[r].table = statements[k].table
                /\ \E r \in DOMAIN table_references :
                      /\ table_references[r].operation = "MERGE_SOURCE"
                      /\ table_references[r].table = statements[k].source

(***************************************************************************)
(* Temp tables created by SELECT ... INTO: SELECT c INTO #t FROM table and *)
(* INSERT INTO table SELECT c FROM source.                                 *)
(***************************************************************************)
IntoStatements ==
    [kind : {"SELECT_INTO"}, table : PermNames, into : TempNames]
        \cup [kind : {"INSERT_SELECT"}, table : PermNames, from : TableNames]
        \cup [kind : {"CREATE_TABLE"}, table : TempNames]

\* the statement type of both kinds is that of their first keyword, and
\* _extract_select_references reads the FROM table of the one,
\* _extract_insert_references the INTO table of the other
IntoStatementReferences(s) ==
    CASE s.kind = "SELECT_INTO" ->
            <<[table |-> s.table, operation |-> "SELECT", blockId |-> Null]>>
      [] s.kind = "INSERT_SELECT" ->
            <<[table |-> s.table, operation |-> "INSERT", blockId |-> Null]>>
      [] OTHER -> StatementReferences(s)

\* temp_structure["type"] of _extract_temp_table for a '#' table
TempStructureType(temp) == "LOCAL_TEMP"

InitInto ==
    /\ pc = "start"
    /\ \E n \in 1..MaxStatements :
          \E ss \in [1..n -> IntoStatements] : statements = ss
    /\ table_references = <<>>
    /\ temp_tables = {}
    /\ temp_structures = <<>>
    /\ variable_assignments = <<>>
    /\ data_flows = <<>>
    /\ IdleStruct
    /\ IdleParam
    /\ IdleComplexity
    /\ IdleClean
    /\ IdleOutput
    /\ IdleLater

\* OperationDetector.detect_table_references on a text with SELECT ... INTO
DetectIntoReferences ==
    /\ pc = "start"
    /\ table_references' =
           LinkReferencesToBlocks(
               Flatten([k \in DOMAIN statements |-> IntoStatementReferences(statements[k])]))
    /\ temp_structures' =
           Flatten([k \in DOMAIN statements |-> StatementStructures(statements[k])])
    /\ temp_tables' =
           UNION {StatementTempTables(statements[k]) : k \in DOMAIN statements}
    /\ pc' = "references"
    /\ UNCHANGED <<statements, variable_assignments, data_flows, notFlow>>

NextInto == DetectIntoReferences \/ AnalyzeTempTables \/ AnalyzeDataFlows

SpecInto == InitInto /\ [][NextInto]_vars

\* C15: for the text SELECT ... INTO #t FROM Source; INSERT INTO Target
\* SELECT ... FROM #t, the analysis yields a LOCAL_TEMP structure named #t and
\* a flow with source Source, intermediate #t and target Target
C15_SelectIntoTempFlow ==
    (/\ pc = "flows"
     /\ Len(statements) = 2
     /\ statements[1].kind = "SELECT_INTO"
     /\ statements[2].kind = "INSERT_SELECT"
     /\ statements[2].from = statements[1].into) =>
        /\ \E k \in DOMAIN temp_structures :
              /\ temp_structures[k].name = statements[1].into
              /\ TempStructureType(temp_structures[k]) = "LOCAL_TEMP"
        /\ \E k \in DOMAIN data_flows :
              /\ data_flows[k].sourceEntities = <<statements[1].table>>
              /\ data_flows[k].intermediateEntities = <<statements[1].into>>
              /\ data_flows[k].targetEntities = <<statements[2].table>>

(***************************************************************************)
(* StatementClassifier._extract_statements.  The text is its list of       *)
(* lines, sql_content.split('\n'); a line is a sequence of characters.  A  *)
(* position j of the code is the character line[j + 1] of the model.       *)
(***************************************************************************)
\* characters of a line
MaxLineLen == 2

Chars == {"'", "-", "/", "*", ";", "a"}

SqlLines == SeqsUpTo(Chars, MaxLineLen)

\* line[j:j+2]
TwoChars(line, j) == SubSeq(line, j + 1, IF j + 2 <= Len(line) THEN j + 2 ELSE Len(line))

\* line.endswith('*/')
EndsWithClose(line) ==
    Len(line) >= 2 /\ SubSeq(line, Len(line) - 1, Len(line)) = <<"*", "/">>

\* text.strip()
RECURSIVE Strip(_)
Strip(text) ==
    IF text = <<>> THEN text
    ELSE IF Head(text) = "\n" THEN Strip(Tail(text))
    ELSE IF text[Len(text)] = "\n" THEN Strip(SubSeq(text, 1, Len(text) - 1))
    ELSE text

\* statement_text and not statement_text.startswith('--')
IsStatementText(text) ==
    text # <<>> /\ TwoChars(text, 0) # <<"-", "-">>

\* len(self.lines) of StructureAnalyzer: len(sql_content.splitlines())
SplitLinesLen(lines) ==
    IF lines[Len(lines)] = <<>> THEN Len(lines) - 1 ELSE Len(lines)

\* StatementClassifier._find_containing_block with the root block alone
FindContainingBlock(lines, start_line, end_line) ==
    IF 0 <= start_line /\ SplitLinesLen(lines) - 1 >= end_line THEN RootId ELSE Null

\* the statement entry appended to self.statements
StatementEntry(st, lines, text, end_line) ==
    [statementId |-> Len(st.statements),
     statementText |-> text,
     lineRange |-> <<st.start_line, end_line>>,
     blockId |-> FindContainingBlock(lines, st.start_line, end_line)]

\* the while loop of _extract_statements on line i from position j; offset
\* is the column of line[0] in the line as read, the code cutting the line
\* at every statement end
RECURSIVE ScanLine(_, _, _, _, _, _)
ScanLine(st, lines, i, line, offset, j) ==
    IF j >= Len(line)
    THEN [st EXCEPT !.current_statement = @ \o line \o <<"\n">>]
    ELSE LET one == line[j + 1]
             two == TwoChars(line, j)
             terminates == one = ";" /\ ~st.in_string /\ ~st.in_comment
             text == Strip(st.current_statement \o SubSeq(line, 1, j + 1))
             rest == SubSeq(line, j + 2, Len(line))
             flagged ==
                 IF one = "'" /\ ~st.in_comment
                 THEN [st EXCEPT !.in_string = ~@]
                 ELSE IF two = <<"-", "-">> /\ ~st.in_string
                 THEN [st EXCEPT !.in_comment = TRUE]
                 ELSE IF two = <<"/", "*">> /\ ~st.in_string
                 THEN [st EXCEPT !.in_comment = TRUE]
                 ELSE IF two = <<"*", "/">> /\ st.in_comment
                 THEN [st EXCEPT !.in_comment = FALSE]
                 ELSE st
             closes == two = <<"*", "/">> /\ st.in_comment
             jj == IF closes THEN j + 1 ELSE j
             reset ==
                 IF jj = Len(line) - 1 /\ flagged.in_comment /\ ~EndsWithClose(line)
                 THEN [flagged EXCEPT !.in_comment = FALSE]
                 ELSE flagged
         IN  IF terminates
             THEN ScanLine(
                      [st EXCEPT
                          !.statements =
                              IF IsStatementText(text)
                              THEN Append(@, StatementEntry(st, lines, text, i))
                              ELSE @,
                          !.ended_at = Append(@, <<i, offset + j>>),
                          !.current_statement = rest,
                          !.start_line = i],
                      lines, i, rest, offset + j + 1, 0)
             ELSE ScanLine(reset, lines, i, line, offset, jj + 1)

\* the for loop of _extract_statements from line i
RECURSIVE ScanLines(_, _, _)
ScanLines(st, lines, i) ==
    IF i >= Len(lines) THEN st
    ELSE ScanLines(ScanLine(st, lines, i, lines[i + 1], 0, 0), lines, i + 1)

\* StatementClassifier._extract_statements: self.statements, and the
\* positions (line, column of the line as read) of the ';' that ended a
\* statement
ExtractStatements(lines) ==
    LET st == ScanLines([in_string |-> FALSE, in_comment |-> FALSE,
                         current_statement |-> <<>>, start_line |-> 0,
                         statements |-> <<>>, ended_at |-> <<>>], lines, 0)
        text == Strip(st.current_statement)
    IN  [statements |->
             IF IsStatementText(text)
             THEN Append(st.statements, StatementEntry(st, lines, text, Len(lines) - 1))
             ELSE st.statements,
         ended_at |-> st.ended_at]

InitClassifier ==
    /\ pc = "start"
    /\ \E first \in SqlLines :
          \/ sql_lines = <<first>>
          \/ \E second \in SqlLines : sql_lines = <<first, second>>
    /\ classifier_statements = <<>>
    /\ statement_ends = <<>>
    /\ IdleStruct
    /\ IdleFlow
    /\ IdleParam
    /\ IdleComplexity
    /\ IdleClean
    /\ IdleOutput
    /\ IdleDir
    /\ IdleLast

notClassifier ==
    <<structVars, flowVars, paramVars, complexityVars, cleanVars, outputVars, dirVars,
      lastVars>>

\* StatementClassifier.__init__, which calls _extract_statements
NewStatementClassifier ==
    /\ pc = "start"
    /\ classifier_statements' = ExtractStatements(sql_lines).statements
    /\ statement_ends' = ExtractStatements(sql_lines).ended_at
    /\ pc' = "statements"
    /\ UNCHANGED <<sql_lines, notClassifier>>

NextClassifier == NewStatementClassifier

SpecClassifier == InitClassifier /\ [][NextClassifier]_vars

\* the ';' of a line that lie outside string literals, -- comments and
\* /* */ comments, the line starting in the given mode
RECURSIVE OutsideOfLine(_, _, _, _, _)
OutsideOfLine(line, i, j, mode, found) ==
    IF j >= Len(line)
    THEN [mode |-> IF mode = "line_comment" THEN "code" ELSE mode, found |-> found]
    ELSE LET one == line[j + 1]
             two == TwoChars(line, j)
         IN  CASE mode = "code" /\ one = "'" ->
                      OutsideOfLine(line, i, j + 1, "string", found)
               [] mode = "code" /\ two = <<"-", "-">> ->
                      OutsideOfLine(line, i, j + 2, "line_comment", found)
               [] mode = "code" /\ two = <<"/", "*">> ->
                      OutsideOfLine(line, i, j + 2, "block_comment", found)
               [] mode = "code" /\ one = ";" ->
                      OutsideOfLine(line, i, j + 1, mode, found \cup {<<i, j>>})
               [] mode = "string" /\ one = "'" ->
                      OutsideOfLine(line, i, j + 1, "code", found)
               [] mode = "block_comment" /\ two = <<"*", "/">> ->
                      OutsideOfLine(line, i, j + 2, "code", found)
               [] OTHER -> OutsideOfLine(line, i, j + 1, mode, found)

RECURSIVE OutsideSemicolons(_, _, _, _)
OutsideSemicolons(lines, i, mode, found) ==
    IF i >= Len(lines) THEN found
    ELSE LET scanned == OutsideOfLine(lines[i + 1], i, 0, mode, found)
         IN  OutsideSemicolons(lines, i + 1, scanned.mode, scanned.found)

\* C16: every ';' that ended a statement lies outside string literals,
\* line comments and block comments
C16_TerminatorsOutsideStringsAndComments ==
    pc = "statements" =>
        Range(statement_ends) \subseteq OutsideSemicolons(sql_lines, 0, "code", {})

\* C17: after analyze_parameter_usage, every parameter has one occurrence
\* entry for each place of the text that holds its name, whatever character
\* precedes the '@'
C17_OneOccurrencePerPlace ==
    pc \in {"usage", "tests"} =>
        \A k \in DOMAIN parameter_usage :
            Len(parameter_usage[k].occurrences) = Len(parameters[k].places)

\* C18: after identify_blocks, no block lies between a block and the parent
\* _identify_nested_blocks gave it: the parent is the innermost of the
\* preceding blocks that contain the block
C18_ParentIsInnermost ==
    pc = "blocks" =>
        \A k \in DOMAIN blocks :
            (blocks[k].parentBlock # Null /\ blocks[k].parentBlock \in BlockIds) =>
                LET parent == BlockById(blocks[k].parentBlock)
                IN  ~\E c \in DOMAIN blocks :
                        /\ c # k
                        /\ blocks[c].id # parent.id
                        /\ Contains(parent, blocks[c])
                        /\ blocks[c].lineRange # parent.lineRange
                        /\ Contains(blocks[c], blocks[k])
                        /\ blocks[c].lineRange # blocks[k].lineRange

\* the BEGIN TRY of the text whose END TRY is followed, after whitespace
\* only, by BEGIN CATCH ... END CATCH
TryCatchPairs(toks) ==
    {p \in DOMAIN toks :
        /\ MatchPair(toks, p, "BEGIN", {"TRY"})
        /\ LET q == SearchPair(toks, p, "END", {"TRY"})
               c == SearchPair(toks, q + 3, "BEGIN", {"CATCH"})
           IN  /\ q # 0
               /\ c # 0
               /\ \A k \in (q + 3)..(c - 1) : IsSpace(toks[k])
               /\ SearchPair(toks, c, "END", {"CATCH"}) # 0}

\* C19: after identify_blocks there is one TRY block for every BEGIN TRY ...
\* END TRY and one CATCH block for every one of them that BEGIN CATCH ...
\* END CATCH follows after whitespace only, and no other CATCH block
C19_CatchForEveryTryCatch ==
    pc = "blocks" =>
        /\ Cardinality({k \in DOMAIN blocks : blocks[k].type = "CATCH"})
              = Cardinality(TryCatchPairs(sql_tokens))
        /\ Cardinality({k \in DOMAIN blocks : blocks[k].type = "TRY"})
              >= Cardinality(TryCatchPairs(sql_tokens))

\* the nearest COMMIT or ROLLBACK at or after index p, whichever comes
\* first, or 0
NearestCommitOrRollback(toks, p) ==
    LET ends == {SearchWordSpace(toks, p, "COMMIT"),
                 SearchWordSpace(toks, p, "ROLLBACK")} \ {0}
    IN  IF ends = {} THEN 0 ELSE Min(ends)

\* C20: after identify_blocks there is one TRANSACTION block for every BEGIN
\* TRAN that a COMMIT or ROLLBACK follows, and it ends on the line of the
\* nearest of them
C20_EndsAtNearestCommitOrRollback ==
    pc = "blocks" =>
        LET begins == {p \in DOMAIN sql_tokens :
                          /\ MatchPair(sql_tokens, p, "BEGIN", {"TRAN"})
                          /\ NearestCommitOrRollback(sql_tokens, p) # 0}
        IN  /\ Cardinality({k \in DOMAIN blocks : blocks[k].type = "TRANSACTION"})
                  = Cardinality(begins)
            /\ \A p \in begins :
                  \E k \in DOMAIN blocks :
                     /\ blocks[k].type = "TRANSACTION"
                     /\ blocks[k].lineRange[1] = SumNl(sql_tokens, 1, p - 1)
                     /\ blocks[k].lineRange[2] =
                           SumNl(sql_tokens, 1, NearestCommitOrRollback(sql_tokens, p) - 1)

RECURSIVE JoinLines(_)
\* '\n'.join(lines): the text whose split('\n') the lines are
JoinLines(lines) ==
    IF Len(lines) <= 1 THEN Flatten(lines)
    ELSE Head(lines) \o <<"\n">> \o JoinLines(Tail(lines))

\* the characters t stand side by side in the text
IsSliceOf(t, text) ==
    \E a \in 1..(Len(text) + 1) :
        /\ a + Len(t) - 1 <= Len(text)
        /\ SubSeq(text, a, a + Len(t) - 1) = t

RECURSIVE SumOfLengths(_)
SumOfLengths(ss) ==
    IF ss = <<>> THEN 0 ELSE Len(Head(ss).statementText) + SumOfLengths(Tail(ss))

\* C27: every statementText of _extract_statements is a trimmed contiguous
\* slice of the SQL text, and no character of the text is in two
\* statements: the statements together are no longer than the text
C27_StatementsAreDisjointSlices ==
    pc = "statements" =>
        /\ \A k \in DOMAIN classifier_statements :
              /\ IsSliceOf(classifier_statements[k].statementText, JoinLines(sql_lines))
              /\ Strip(classifier_statements[k].statementText)
                     = classifier_statements[k].statementText
        /\ SumOfLengths(classifier_statements) <= Len(JoinLines(sql_lines))

(***************************************************************************)
(* Unbalanced BEGIN/END.                                                   *)
(***************************************************************************)
\* the occurrences of a value among tokens
CountOf(toks, v) == Cardinality({k \in DOMAIN toks : toks[k] = v})

\* the tokens of a block's text from its first BEGIN on
FromBegin(code) == Slice(code, FirstValue(code, 1, {"BEGIN"}), Len(code))

\* the block was made from a BEGIN that no END of the token sequence closes:
\* the text of an IF, WHILE or bare BEGIN block runs from its BEGIN to the
\* END that brings begin_count to 0, or to the end of the tokens; an ELSE
\* block stops before the first END, so its BEGIN is surely open when the
\* tokens hold no END
UnmatchedBegin(b) ==
    CASE b.type \in {"IF", "WHILE", "BEGIN_END"} ->
            /\ "BEGIN" \in Range(b.codeText)
            /\ CountOf(FromBegin(b.codeText), "BEGIN") > CountOf(FromBegin(b.codeText), "END")
      [] b.type = "ELSE" ->
            /\ "BEGIN" \in Range(b.codeText)
            /\ "END" \notin Range(sql_tokens)
      [] OTHER -> FALSE

\* C21: after identify_blocks no block has been emitted for an IF, ELSE,
\* WHILE or bare BEGIN whose BEGIN has no matching END in the token sequence
C21_NoBlockForUnmatchedBegin ==
    pc = "blocks" => \A k \in DOMAIN blocks : ~UnmatchedBegin(blocks[k])

(***************************************************************************)
(* Variable-mediated flows.                                                *)
(***************************************************************************)
\* the flows that _analyze_variable_flows made
VariableFlows ==
    {k \in DOMAIN data_flows : data_flows[k].intermediateEntities = <<VariableName>>}

\* C22: after analyze_data_flows the consuming block of every
\* variable-mediated flow (blockIds[1]) is another block than the block
\* that holds the assignment (blockIds[0])
C22_ConsumingBlockIsNotAssigningBlock ==
    pc = "flows" =>
        \A k \in VariableFlows : data_flows[k].blockIds[1] # data_flows[k].blockIds[2]

(***************************************************************************)
(* Repository boundaries (RepositoryAnalyzer.suggest_repository_boundaries) *)
(* from the classified statements (StatementClassifier).                   *)
(*                                                                         *)
(* The text is a sequence of statements, one per line, in the root block:  *)
(*   SELECT <<t>>       SELECT a FROM t;                                   *)
(*   SELECT <<t, u>>    SELECT a FROM t x, u y;                            *)
(*   INSERT <<t>>       INSERT INTO t VALUES (1);                          *)
(* with "= @v" at its end when the statement names the variable.  Every    *)
(* table named is one table reference, linked to the root.  blockId is the *)
(* block _find_containing_block gave the statement: the root, or None for  *)
(* a statement that ends after the last line of the root.                  *)
(***************************************************************************)
\* statements of an input text
MaxBoundaryStatements == 2

BoundaryStatements ==
    [first_word : {"SELECT"}, tables : UNION {[1..n -> PermNames] : n \in 1..2},
     variable : BOOLEAN, blockId : {RootId, Null}]
        \cup [first_word : {"INSERT"}, tables : [1..1 -> PermNames],
              variable : BOOLEAN, blockId : {RootId, Null}]

\* the table references OperationDetector hands over for the text: one for
\* every name of a FROM list, one for the table of an INSERT
BoundaryReferences(stmts) ==
    Flatten([k \in DOMAIN stmts |->
                [i \in DOMAIN stmts[k].tables |->
                    [table |-> stmts[k].tables[i], operation |-> stmts[k].first_word,
                     blockId |-> RootId]]])

\* StatementClassifier._classify_statement_purpose: the purpose
ClassifyStatementPurpose(statement) ==
    CASE statement.first_word = "SELECT" -> "RETRIEVAL"
      [] statement.first_word \in {"INSERT", "UPDATE", "DELETE", "MERGE"} -> "PERSISTENCE"
      [] OTHER -> "AUXILIARY"

\* StatementClassifier._extract_affected_entities: the table of every table
\* reference whose table the text names, then the variable, once
ExtractAffectedEntities(refs, statement) ==
    LET named == SelectSeq(refs, LAMBDA r : r.table \in Range(statement.tables))
    IN  [k \in DOMAIN named |-> named[k].table]
            \o (IF statement.variable THEN <<VariableName>> ELSE <<>>)

\* StatementClassifier.classify_statements
ClassifyStatementsOf(stmts, refs) ==
    [k \in DOMAIN stmts |->
        [statementId |-> k - 1,
         blockId |-> stmts[k].blockId,
         purpose |-> ClassifyStatementPurpose(stmts[k]),
         affectedEntities |-> ExtractAffectedEntities(refs, stmts[k])]]

\* entity_statements[entity]: the statement, once for every time the
\* entity stands in its affectedEntities
EntityStatements(purposes, entity) ==
    Flatten([k \in DOMAIN purposes |->
                LET hits == SelectSeq(purposes[k].affectedEntities,
                                      LAMBDA e : e = entity)
                IN  [i \in DOMAIN hits |-> purposes[k]]])

\* the keys of entity_statements, in order of insertion
EntityKeys(purposes) ==
    Distinct(SelectSeq(Flatten([k \in DOMAIN purposes |-> purposes[k].affectedEntities]),
                       LAMBDA e : e # VariableName), {})

\* list(set(statement.get("blockId") ... if statement.get("blockId")))
RelatedBlocks(sts) ==
    Distinct(SelectSeq([k \in DOMAIN sts |-> sts[k].blockId], LAMBDA b : b # Null), {})

\* RepositoryAnalyzer._create_retrieval_method (inputParameters and
\* returnDataStructure left out)
CreateRetrievalMethod(entity, sts, method_counter) ==
    [methodId |-> method_counter,
     suggestedName |-> <<"Get", entity>>,
     description |-> <<"Retrieve", entity>>,
     relatedBlocks |-> RelatedBlocks(sts)]

\* RepositoryAnalyzer._create_persistence_method: every subPurpose is
\* SINGLE_INSERT
CreatePersistenceMethod(entity, sts, method_counter) ==
    [methodId |-> method_counter,
     suggestedName |-> <<"Create", entity>>,
     description |-> <<"Persist", entity>>,
     relatedBlocks |-> RelatedBlocks(sts)]

\* the loop "for entity, statements in entity_statements.items()"
RECURSIVE EntityMethods(_, _, _)
EntityMethods(methods, purposes, entities) ==
    IF entities = <<>> THEN methods
    ELSE LET entity == Head(entities)
             sts == EntityStatements(purposes, entity)
             retrieval == SelectSeq(sts, LAMBDA s : s.purpose = "RETRIEVAL")
             persistence == SelectSeq(sts, LAMBDA s : s.purpose = "PERSISTENCE")
             with_retrieval ==
                 IF retrieval # <<>> /\ RelatedBlocks(retrieval) # <<>>
                 THEN Append(methods, CreateRetrievalMethod(entity, retrieval, Len(methods)))
                 ELSE methods
             with_persistence ==
                 IF persistence # <<>> /\ RelatedBlocks(persistence) # <<>>
                 THEN Append(with_retrieval,
                             CreatePersistenceMethod(entity, persistence, Len(with_retrieval)))
                 ELSE with_retrieval
         IN  EntityMethods(IF Len(sts) <= 1 THEN methods ELSE with_persistence,
                           purposes, Tail(entities))

\* a block of block_ids is among the relatedBlocks of a method
Covered(methods, block_ids) ==
    \E k \in DOMAIN methods :
        \E b \in Range(block_ids) : b \in Range(methods[k].relatedBlocks)

\* the loop "for flow in self.data_flows" with _create_flow_method
RECURSIVE FlowMethods(_, _)
FlowMethods(methods, flows) ==
    IF flows = <<>> THEN methods
    ELSE LET flow == Head(flows)
             skip == \/ flow.sourceEntities = <<>>
                     \/ flow.targetEntities = <<>>
                     \/ flow.blockIds = <<>>
                     \/ Covered(methods, flow.blockIds)
             method ==
                 [methodId |-> Len(methods),
                  suggestedName |->
                      IF "UPDATE" \in Range(flow.operations)
                      THEN <<"Update", flow.targetEntities[1], "From", flow.sourceEntities[1]>>
                      ELSE IF "INSERT" \in Range(flow.operations)
                      THEN <<"Create", flow.targetEntities[1], "From", flow.sourceEntities[1]>>
                      ELSE <<"Process", flow.sourceEntities[1], "To", flow.targetEntities[1]>>,
                  description |-> <<"Process", flow.sourceEntities, flow.targetEntities>>,
                  relatedBlocks |-> flow.blockIds]
         IN  FlowMethods(IF skip THEN methods ELSE Append(methods, method), Tail(flows))

\* the purpose of the root block of the text: INSERT INTO is looked for
\* before SELECT
BoundaryRootPurpose(stmts) ==
    IF \E k \in DOMAIN stmts : stmts[k].first_word = "INSERT" THEN "DATA_INSERTION"
    ELSE IF stmts # <<>> THEN "DATA_RETRIEVAL"
    ELSE "AUXILIARY"

\* code_text.upper().count(table.upper()) for the root block
TableCount(stmts, table) ==
    Len(SelectSeq(Flatten([k \in DOMAIN stmts |-> stmts[k].tables]), LAMBDA t : t = table))

\* the tables max(table_counts.items(), key=...) of _create_block_method may
\* return: the first of the largest count in the iteration order of a set
PrimaryEntities(stmts, refs) ==
    LET tables == {refs[k].table : k \in DOMAIN refs}
    IN  {t \in tables : \A u \in tables : TableCount(stmts, u) <= TableCount(stmts, t)}

\* the loop "for block in self.logical_blocks" with _create_block_method,
\* for the root block and the primary entity chosen
BlockMethods(methods, stmts, refs, primary_entity) ==
    IF \/ Covered(methods, <<RootId>>)
       \/ BoundaryRootPurpose(stmts) \notin
              {"DATA_RETRIEVAL", "DATA_TRANSFORMATION", "DATA_FILTERING"}
       \/ refs = <<>>
    THEN methods
    ELSE Append(methods,
             [methodId |-> Len(methods),
              suggestedName |-> <<"Get", primary_entity>>,
              description |-> <<BoundaryRootPurpose(stmts), primary_entity>>,
              relatedBlocks |-> <<RootId>>])

(***************************************************************************)
(* Steps 5 and 7 of process_single_file as a state machine.                *)
(***************************************************************************)
InitBoundary ==
    /\ pc = "start"
    /\ \E n \in 0..MaxBoundaryStatements :
          \E ss \in [1..n -> BoundaryStatements] :
             /\ statements = ss
             /\ table_references = BoundaryReferences(ss)
             /\ data_flows =
                    AnalyzeTableFlows(<<>>, BoundaryReferences(ss),
                                      BlockIdsOfRefs(BoundaryReferences(ss), {}))
    /\ temp_tables = {}
    /\ temp_structures = <<>>
    /\ variable_assignments = <<>>
    /\ statement_purposes = <<>>
    /\ repository_boundaries = <<>>
    /\ IdleStruct
    /\ IdleParam
    /\ IdleComplexity
    /\ IdleClean
    /\ IdleOutput
    /\ IdleDir
    /\ IdleClassifier
    /\ IdleDynamic
    /\ IdleLookup
    /\ IdleRepeat
    /\ IdleLoops

notBoundary ==
    <<structVars, flowVars, paramVars, complexityVars, cleanVars, outputVars, dirVars,
      classifierVars, dynamicVars, lookupVars, repeatVars, loopVars>>

\* StatementClassifier.classify_statements
ClassifyStatements ==
    /\ pc = "start"
    /\ statement_purposes' =
           statement_purposes \o ClassifyStatementsOf(statements, table_references)
    /\ pc' = "classified"
    /\ UNCHANGED <<repository_boundaries, notBoundary>>

\* RepositoryAnalyzer.suggest_repository_boundaries
SuggestRepositoryBoundaries ==
    /\ pc = "classified"
    /\ \E primary_entity \in PrimaryEntities(statements, table_references) \cup {None} :
          /\ (primary_entity = None) = (table_references = <<>>)
          /\ repository_boundaries' =
                 BlockMethods(
                     FlowMethods(
                         EntityMethods(<<>>, statement_purposes, EntityKeys(statement_purposes)),
                         data_flows),
                     statements, table_references, primary_entity)
    /\ pc' = "boundaries"
    /\ UNCHANGED <<statement_purposes, notBoundary>>

NextBoundary == ClassifyStatements \/ SuggestRepositoryBoundaries

SpecBoundary == InitBoundary /\ [][NextBoundary]_vars

\* the methods made for an entity from its statements
EntityBasedMethods ==
    {k \in DOMAIN repository_boundaries :
        repository_boundaries[k].description[1] \in {"Retrieve", "Persist"}}

\* the classified statements that list the entity among their affectedEntities
StatementsListing(entity) ==
    {k \in DOMAIN statement_purposes :
        entity \in Range(statement_purposes[k].affectedEntities)}

\* C23: after suggest_repository_boundaries every retrieval or persistence
\* method made for an entity has at least two distinct classified
\* statements that list the entity among their affectedEntities
C23_TwoStatementsPerEntityMethod ==
    pc = "boundaries" =>
        \A k \in EntityBasedMethods :
            Cardinality(StatementsListing(repository_boundaries[k].description[2])) >= 2

(***************************************************************************)
(* Dynamic SQL (OperationDetector._extract_dynamic_sql).                   *)
(*                                                                         *)
(* A statement is the set of the markers its upper-cased text holds; a     *)
(* text with "+=" holds "=".  EXECUTE( and "EXECUTE " are read as EXEC(    *)
(* and "EXEC ".  The parameters and potential queries of an operation are  *)
(* left out.                                                               *)
(***************************************************************************)
\* statements of an input text
MaxDynamicStatements == 2

DynamicMarkers == {"EXEC(", "SP_EXECUTESQL", "EXEC ", "+=", "=", "SELECT"}

DynamicStatements == {s \in SUBSET DynamicMarkers : "+=" \in s => "=" \in s}

\* "+=" in value or "=" in value and any(kw in value.upper() for kw in ...)
IsStringBuilding(value) == "+=" \in value \/ ("=" \in value /\ "SELECT" \in value)

\* _extract_dynamic_sql: the if/elif chain that sets constructionPattern
ConstructionPattern(value) ==
    IF "EXEC(" \in value THEN "DIRECT_EXEC"
    ELSE IF "SP_EXECUTESQL" \in value THEN "SP_EXECUTESQL"
    ELSE IF "EXEC " \in value THEN "EXEC_STATEMENT"
    ELSE IF IsStringBuilding(value) THEN "STRING_BUILDING"
    ELSE "UNKNOWN"

\* OperationDetector._extract_dynamic_sql
ExtractDynamicSql(ops, value) ==
    Append(ops, [id |-> Len(ops), blockId |-> Null,
                 constructionPattern |-> ConstructionPattern(value)])

RECURSIVE ExtractDynamicSqlOfAll(_, _)
\* the loop of detect_table_references over statements that are dynamic SQL
ExtractDynamicSqlOfAll(ops, values) ==
    IF values = <<>> THEN ops
    ELSE ExtractDynamicSqlOfAll(ExtractDynamicSql(ops, Head(values)), Tail(values))

InitDynamic ==
    /\ pc = "start"
    /\ \E n \in 0..MaxDynamicStatements :
          \E ss \in [1..n -> DynamicStatements] : dynamic_statements = ss
    /\ dynamic_sql_operations = <<>>
    /\ IdleStruct
    /\ IdleFlow
    /\ IdleParam
    /\ IdleComplexity
    /\ IdleClean
    /\ IdleOutput
    /\ IdleDir
    /\ IdleClassifier
    /\ IdleBoundary
    /\ IdleLookup
    /\ IdleRepeat
    /\ IdleLoops

notDynamic ==
    <<structVars, flowVars, paramVars, complexityVars, cleanVars, outputVars, dirVars,
      classifierVars, boundaryVars, lookupVars, repeatVars, loopVars>>

\* OperationDetector.detect_table_references on a text of dynamic SQL
DetectDynamicStatements ==
    /\ pc = "start"
    /\ dynamic_sql_operations' =
           ExtractDynamicSqlOfAll(dynamic_sql_operations, dynamic_statements)
    /\ pc' = "dynamic"
    /\ UNCHANGED <<dynamic_statements, notDynamic>>

NextDynamic == DetectDynamicStatements

SpecDynamic == InitDynamic /\ [][NextDynamic]_vars

\* the order of the markers: sp_executesql, EXEC(, bare EXEC, assignment
MarkerOrderPattern(value) ==
    IF "SP_EXECUTESQL" \in value THEN "SP_EXECUTESQL"
    ELSE IF "EXEC(" \in value THEN "DIRECT_EXEC"
    ELSE IF "EXEC " \in value THEN "EXEC_STATEMENT"
    ELSE IF IsStringBuilding(value) THEN "STRING_BUILDING"
    ELSE "UNKNOWN"

\* C25: the constructionPattern of every dynamic-SQL operation is the first
\* match in the order sp_executesql, EXEC(, bare EXEC, assignment pattern,
\* else UNKNOWN; a statement with sp_executesql and EXEC( is SP_EXECUTESQL
C25_FirstMarkerWins ==
    pc = "dynamic" =>
        /\ Len(dynamic_sql_operations) = Len(dynamic_statements)
        /\ \A k \in DOMAIN dynamic_sql_operations :
              dynamic_sql_operations[k].constructionPattern
                  = MarkerOrderPattern(dynamic_statements[k])

(***************************************************************************)
(* The block of a match: DataFlowAnalyzer._find_containing_block_id,       *)
(* ParameterTracker._find_containing_block and                             *)
(* StatementClassifier._find_containing_block on the same logical blocks.  *)
(*                                                                         *)
(* The text has one statement on every line; the blocks are the root and   *)
(* blocks whose line ranges nest or are apart.  The match (a variable      *)
(* assignment, a parameter occurrence, a statement) is on one line, whose  *)
(* number counts from 0 as the lineRange of a block does.                  *)
(***************************************************************************)
\* min(containing_blocks, key=lambda b: b["lineRange"][1] - b["lineRange"][0])["id"]:
\* the first of the smallest blocks that contain the lines, or None
SmallestContaining(bs, start_line, end_line) ==
    LET containing ==
            {k \in DOMAIN bs :
                bs[k].lineRange[1] <= start_line /\ bs[k].lineRange[2] >= end_line}
        smallest ==
            {k \in containing :
                \A q \in containing :
                    bs[k].lineRange[2] - bs[k].lineRange[1]
                        <= bs[q].lineRange[2] - bs[q].lineRange[1]}
    IN  IF containing = {} THEN Null ELSE bs[Min(smallest)].id

\* sql_content[:match.start()].count('\n') + 1
LineNumber(line) == line + 1

\* DataFlowAnalyzer._find_containing_block_id(match.start())
AssignmentBlockId(bs, line) ==
    SmallestContaining(bs, LineNumber(line), LineNumber(line))

\* ParameterTracker._find_containing_block(line_number)
OccurrenceBlockId(bs, line) ==
    SmallestContaining(bs, LineNumber(line), LineNumber(line))

\* StatementClassifier._find_containing_block(start_line, end_line) for a
\* statement on one line
StatementBlockId(bs, line) == SmallestContaining(bs, line, line)

InitLookup ==
    /\ pc = "start"
    /\ \E n \in 1..MaxStatements :
          \E m \in 0..MaxLinkBlocks :
             \E ranges \in [1..m -> LineRanges(n)] :
                /\ \A i, j \in 1..m : Laminar(ranges[i], ranges[j])
                /\ blocks =
                     <<CreateBlock(RootId, "PROCEDURE_BODY", Null, 0, n - 1, <<>>)>>
                     \o [k \in 1..m |->
                           CreateBlock(k, "BEGIN_END", Null, ranges[k][1], ranges[k][2], <<>>)]
                /\ match_line \in 0..(n - 1)
    /\ found_blocks = <<>>
    /\ sql_tokens = <<>>
    /\ IdleFlow
    /\ IdleParam
    /\ IdleComplexity
    /\ IdleClean
    /\ IdleOutput
    /\ IdleDir
    /\ IdleClassifier
    /\ IdleBoundary
    /\ IdleDynamic
    /\ IdleRepeat
    /\ IdleLoops

notLookup ==
    <<flowVars, paramVars, complexityVars, cleanVars, outputVars, dirVars,
      classifierVars, boundaryVars, dynamicVars, repeatVars, loopVars>>

\* the three analyzers look up the block of the match
FindContainingBlocks ==
    /\ pc = "start"
    /\ found_blocks' =
           [assignment |-> AssignmentBlockId(blocks, match_line),
            occurrence |-> OccurrenceBlockId(blocks, match_line),
            statement |-> StatementBlockId(blocks, match_line)]
    /\ pc' = "found"
    /\ UNCHANGED <<sql_tokens, blocks, match_line, notLookup>>

NextLookup == FindContainingBlocks

SpecLookup == InitLookup /\ [][NextLookup]_vars

\* C26: the blockId of a variable assignment and of a parameter occurrence
\* is the smallest block whose 0-based lineRange contains the 0-based line
\* of the match: the block the statement classifier gives a statement on
\* that line
C26_SameBlockAsStatement ==
    pc = "found" =>
        /\ found_blocks.statement # Null
        /\ found_blocks.assignment = found_blocks.statement
        /\ found_blocks.occurrence = found_blocks.statement

(***************************************************************************)
(* A method called twice on one analyzer instance: classify_statements,    *)
(* analyze_parameter_usage or analyze_data_flows.  The state at the start  *)
(* is that of the instance after its construction.                         *)
(***************************************************************************)
\* statements or parameters of the text of the instance
MaxRepeatItems == 1

\* __init__ of StatementClassifier, of ParameterTracker or of
\* DataFlowAnalyzer, which extracts the variable assignments
InitRepeat ==
    /\ \/ /\ pc = "classifier_0"
          /\ \E n \in 0..MaxRepeatItems :
                \E ss \in [1..n -> BoundaryStatements] :
                   /\ statements = ss
                   /\ table_references = BoundaryReferences(ss)
          /\ temp_tables = {}
          /\ temp_structures = <<>>
          /\ variable_assignments = <<>>
          /\ IdleParam
       \/ /\ pc = "parameters_0"
          /\ \E n \in 0..MaxRepeatItems :
                \E ps \in [1..n -> [dataType : DataTypes, defaultValue : DefaultValues,
                                    places : ParameterPlaces]] :
                   parameters =
                       [k \in 1..n |->
                           [name |-> ParameterNames[k], dataType |-> ps[k].dataType,
                            defaultValue |-> ps[k].defaultValue, places |-> ps[k].places]]
          /\ parameter_usage = <<>>
          /\ test_value_candidates = <<>>
          /\ statements = <<>>
          /\ table_references = <<>>
          /\ temp_tables = {}
          /\ temp_structures = <<>>
          /\ variable_assignments = <<>>
       \/ /\ pc = "flows_0"
          /\ \E n \in 0..(MaxRepeatItems + 1) :
                \E ss \in [1..n -> FlowStatements] :
                   LET refs == LinkReferencesToBlocks(
                                   Flatten([k \in DOMAIN ss |-> StatementReferences(ss[k])]))
                       temps == UNION {StatementTempTables(ss[k]) : k \in DOMAIN ss}
                   IN  /\ statements = ss
                       /\ table_references = refs
                       /\ temp_tables = temps
                       /\ temp_structures =
                              AnalyzeTempTableOperations(
                                  Flatten([k \in DOMAIN ss |-> StatementStructures(ss[k])]),
                                  refs, temps, 1)
                       /\ variable_assignments = ExtractVariableAssignments(ss, refs)
          /\ IdleParam
    /\ data_flows = <<>>
    /\ statement_purposes = <<>>
    /\ repository_boundaries = <<>>
    /\ returned = <<>>
    /\ IdleStruct
    /\ IdleComplexity
    /\ IdleClean
    /\ IdleOutput
    /\ IdleDir
    /\ IdleClassifier
    /\ IdleDynamic
    /\ IdleLookup
    /\ IdleLoops

notRepeat ==
    <<structVars, complexityVars, cleanVars, outputVars, dirVars, classifierVars,
      dynamicVars, lookupVars, loopVars, repository_boundaries, statements, table_references,
      temp_tables, temp_structures, variable_assignments, parameters,
      test_value_candidates>>

\* a call of StatementClassifier.classify_statements
CallClassifyStatements ==
    /\ pc \in {"classifier_0", "classifier_1"}
    /\ statement_purposes' =
           statement_purposes \o ClassifyStatementsOf(statements, table_references)
    /\ returned' = Append(returned, statement_purposes')
    /\ pc' = IF pc = "classifier_0" THEN "classifier_1" ELSE "classifier_2"
    /\ UNCHANGED <<parameter_usage, data_flows, notRepeat>>

\* a call of ParameterTracker.analyze_parameter_usage
CallAnalyzeParameterUsage ==
    /\ pc \in {"parameters_0", "parameters_1"}
    /\ parameter_usage' =
           parameter_usage \o [k \in DOMAIN parameters |-> UsageData(parameters[k])]
    /\ returned' = Append(returned, parameter_usage')
    /\ pc' = IF pc = "parameters_0" THEN "parameters_1" ELSE "parameters_2"
    /\ UNCHANGED <<statement_purposes, data_flows, notRepeat>>

\* a call of DataFlowAnalyzer.analyze_data_flows
CallAnalyzeDataFlows ==
    /\ pc \in {"flows_0", "flows_1"}
    /\ data_flows' =
           AnalyzeDataFlowsOnto(data_flows, variable_assignments, table_references,
                                temp_structures)
    /\ returned' = Append(returned, data_flows')
    /\ pc' = IF pc = "flows_0" THEN "flows_1" ELSE "flows_2"
    /\ UNCHANGED <<statement_purposes, parameter_usage, notRepeat>>

NextRepeat == CallClassifyStatements \/ CallAnalyzeParameterUsage \/ CallAnalyzeDataFlows

SpecRepeat == InitRepeat /\ [][NextRepeat]_vars

\* C29: the second call of classify_statements, analyze_parameter_usage or
\* analyze_data_flows on an instance returns a list equal to what the
\* first call returned
C29_SecondCallReturnsTheSame ==
    Len(returned) = 2 => returned[2] = returned[1]

(***************************************************************************)
(* The scanning loops, one iteration at a time: the while loop of          *)
(* StructureAnalyzer._process_tokens over the tokens, and the for and      *)
(* while loops of StatementClassifier._extract_statements over the lines   *)
(* and the characters of a line.  scan.i is the token index (from 1) or    *)
(* the line number (from 0), scan.j the column, scan.line the line as the  *)
(* loop holds it.                                                          *)
(***************************************************************************)
\* the value of i after the iteration of _process_tokens at token i
NextTokenIndex(toks, i) ==
    LET tok == toks[i]
    IN  IF IsKeyword(tok)
        THEN CASE tok \in {"IF", "WHILE"} -> CondBlock(toks, i, 0, 0, Null, tok).next
               [] tok = "ELSE" -> ElseBlock(toks, i, 0, 0, Null).next
               [] tok = "CASE" -> CaseBlock(toks, i, 0, 0, Null).next
               [] tok = "BEGIN" /\ (i = 1 \/ toks[i - 1] \notin {"IF", "ELSE", "WHILE"}) ->
                      BeginBlock(toks, i, 0, 0, Null).next
               [] OTHER -> i + 1
        ELSE i + 1

\* line[j:], which keeps the ';'
LineFromSemicolon(line, j) == SubSeq(line, j + 1, Len(line))

\* line[j+1:]
RemainingLine(line, j) == SubSeq(line, j + 2, Len(line))

\* one iteration of the while loop of _extract_statements
ScanStep(s) ==
    LET one == s.line[s.j + 1]
        two == TwoChars(s.line, s.j)
        flagged ==
            IF one = "'" /\ ~s.in_comment
            THEN [s EXCEPT !.in_string = ~@]
            ELSE IF two = <<"-", "-">> /\ ~s.in_string
            THEN [s EXCEPT !.in_comment = TRUE]
            ELSE IF two = <<"/", "*">> /\ ~s.in_string
            THEN [s EXCEPT !.in_comment = TRUE]
            ELSE IF two = <<"*", "/">> /\ s.in_comment
            THEN [s EXCEPT !.in_comment = FALSE, !.j = @ + 1]
            ELSE s
        terminates ==
            /\ flagged = s
            /\ one = ";"
            /\ ~s.in_string
            /\ ~s.in_comment
        reset ==
            IF flagged.j = Len(s.line) - 1 /\ flagged.in_comment /\ ~EndsWithClose(s.line)
            THEN [flagged EXCEPT !.in_comment = FALSE]
            ELSE flagged
    IN  IF terminates
        THEN [s EXCEPT !.line = RemainingLine(s.line, s.j), !.j = 0]
        ELSE [reset EXCEPT !.j = @ + 1]

\* words of a text _process_tokens scans one iteration at a time; the kind
\* of whitespace between the words does not matter to the token index
MaxLoopWords == 3

\* the texts of at most MaxLineLen characters in one or two lines
LoopLines ==
    {<<first>> : first \in SqlLines}
        \cup {ls \in SqlLines \X SqlLines : Len(ls[1]) + Len(ls[2]) <= MaxLineLen}

InitLoops ==
    /\ \/ /\ pc = "tokens"
          /\ \E n \in 0..MaxLoopWords :
                \E ws \in [1..n -> StructWords \X {"SP"}] : sql_tokens = TextOf(ws)
          /\ sql_lines = <<>>
          /\ scan = [NoScan EXCEPT !.i = 1]
       \/ /\ pc = "lines"
          /\ sql_lines \in LoopLines
          /\ sql_tokens = <<>>
          /\ scan = [NoScan EXCEPT !.line = sql_lines[1]]
    /\ blocks = <<>>
    /\ classifier_statements = <<>>
    /\ statement_ends = <<>>
    /\ IdleFlow
    /\ IdleParam
    /\ IdleComplexity
    /\ IdleClean
    /\ IdleOutput
    /\ IdleDir
    /\ IdleBoundary
    /\ IdleDynamic
    /\ IdleLookup
    /\ IdleRepeat

notLoops ==
    <<structVars, flowVars, paramVars, complexityVars, cleanVars, outputVars, dirVars,
      classifierVars, boundaryVars, dynamicVars, lookupVars, repeatVars>>

\* an iteration of "while i < len(tokens)" in _process_tokens
ProcessTokensStep ==
    /\ pc = "tokens"
    /\ scan.i <= Len(sql_tokens)
    /\ scan' = [scan EXCEPT !.i = NextTokenIndex(sql_tokens, scan.i)]
    /\ UNCHANGED <<pc, notLoops>>

\* "while i < len(tokens)" is left
ProcessTokensExit ==
    /\ pc = "tokens"
    /\ scan.i > Len(sql_tokens)
    /\ pc' = "scanned"
    /\ UNCHANGED <<scan, notLoops>>

\* an iteration of "while j < len(line)" in _extract_statements
ScanCharacter ==
    /\ pc = "lines"
    /\ scan.j < Len(scan.line)
    /\ scan' = ScanStep(scan)
    /\ UNCHANGED <<pc, notLoops>>

\* "while j < len(line)" is left and the for loop takes the next line
NextLine ==
    /\ pc = "lines"
    /\ scan.j >= Len(scan.line)
    /\ scan.i + 1 < Len(sql_lines)
    /\ scan' = [scan EXCEPT !.i = @ + 1, !.j = 0, !.line = sql_lines[scan.i + 2]]
    /\ UNCHANGED <<pc, notLoops>>

\* the for loop over the lines is left
ExtractStatementsExit ==
    /\ pc = "lines"
    /\ scan.j >= Len(scan.line)
    /\ scan.i + 1 >= Len(sql_lines)
    /\ pc' = "scanned"
    /\ UNCHANGED <<scan, notLoops>>

NextLoops ==
    \/ ProcessTokensStep
    \/ ProcessTokensExit
    \/ ScanCharacter
    \/ NextLine
    \/ ExtractStatementsExit

\* the loops run on: the interpreter executes the next iteration
SpecLoops == InitLoops /\ [][NextLoops]_vars /\ WF_vars(NextLoops)

\* an iteration of _process_tokens moves the token index forward; an
\* iteration of the while loop of _extract_statements either cuts the line
\* to a shorter one and puts the column at 0, or moves the column forward
\* in the same line
LoopsAdvance ==
    /\ pc = "tokens" /\ pc' = "tokens" => scan'.i > scan.i
    /\ pc = "lines" /\ pc' = "lines" /\ scan'.i = scan.i =>
          IF scan'.j = 0
          THEN Len(scan'.line) < Len(scan.line)
          ELSE scan'.j > scan.j /\ scan'.line = scan.line

\* C30: both scanning loops terminate on every input: every iteration of
\* _process_tokens strictly advances the token index, and every ';' split
\* of _extract_statements strictly shortens the remaining line before the
\* column is put back to 0
C30_ScanningLoopsTerminate ==
    /\ [][LoopsAdvance]_vars
    /\ <>(pc = "scanned")

\* a ';' split has cut the line, text remains after the ';', and the column
\* is back at 0
C30_LineCutAtSemicolon ==
    /\ pc = "lines"
    /\ scan.j = 0
    /\ scan.line # <<>>
    /\ scan.line # sql_lines[scan.i + 1]

====
